---- MODULE Spec2Model ----
(***************************************************************************)
(* Admission control of the multi-tenant API server: the quota ledger      *)
(* (services/rate_limiter.py), the cost ledger (services/cost_tracker.py), *)
(* the budget policy engine (services/budget_enforcer.py) and the request  *)
(* path that combines them (main.py, middleware/, routers/chat.py).        *)
(*                                                                         *)
(* Money is counted in mills (1/1000 USD) so that the two-decimal          *)
(* formatting of amounts is a real rounding.  Python's Optional values are *)
(* None == <<>> and Some(x) == <<x>>.                                      *)
(***************************************************************************)
EXTENDS Integers, Sequences, FiniteSets, TLC

None == << >>
Some(x) == << x >>
IsNone(o) == o = None
Val(o) == o[1]
\* Python truthiness of an Optional number: None and 0 are falsy.
Truthy(o) == o # None /\ Val(o) # 0
TruthyStr(o) == o # None /\ Val(o) # ""

\* startswith, on sequences
IsPrefix(pre, path) == Len(pre) <= Len(path) /\ SubSeq(path, 1, Len(pre)) = pre

Tenants == {"a", "ab"}

(***************************************************************************)
(* Bounds of the model.                                                    *)
(***************************************************************************)
MaxMockQueries == 2
MaxRows == 1
MaxInFlight == 2          \* calls (requests) in progress at once
MaxLimit == 1             \* the largest configured request limit
MaxCount == 2             \* no call starts once a counter of its tenant is this high
MaxInstant == 86401       \* the wall clock stops here (one second into day 1)
MaxRecorded == 2          \* timed record_request calls per behaviour
MaxUsage == 105           \* the largest usage percent passed to get_throttle_factor
MaxTracked == 2           \* track_request_cost calls per tenant
PercentUnit == 2          \* percents are counted in halves

Procs == 1..MaxInFlight

(***************************************************************************)
(* Cost ledger and budget engine state.                                    *)
(***************************************************************************)
VARIABLES
    cost_client,          \* CostTracker.cost_client: "None" (mock mode) or "client"
    azure_up,             \* whether the cost backend answers queries
    azure_rows,           \* per tenant, the cost rows the backend holds (mills)
    mock_costs,           \* CostTracker._mock_costs: tenant -> amount (a dict)
    breakdowns_accepted,  \* whether TenantCost accepts the tracker's CostBreakdown rows
    cost_log,             \* per tenant, of the direct CostTracker calls: the number of
                          \* tracked cost events, the last total reported, and the
                          \* total a report has to reach to include what was tracked
    last                  \* the service call that has just returned, until its caller takes it

budgetVars == << cost_client, azure_up, azure_rows, mock_costs, breakdowns_accepted,
                cost_log >>

(***************************************************************************)
(* Quota ledger state, and the calls in progress.                          *)
(***************************************************************************)
VARIABLES
    redis_client,         \* RateLimiter.redis_client: "None" (mock mode) or "Redis"
    tenants,              \* TenantManager: tenant id -> TenantConfig
    allow_all_tenants,    \* Settings.allow_all_tenants
    store_up,             \* whether the counter store answers commands
    store,                \* the counter store: key -> [count, ttl], absent keys absent
    pc,                   \* per call slot, where the call stands
    rq,                   \* per call slot, the arguments, locals and return value
    dirty,                \* per call slot: the store changed since check_rate_limit began
    hist,                 \* per tenant, the record_request calls completed so far
    http                  \* per call slot, the HTTP request being served

(***************************************************************************)
(* The wall clock, for the specification that lets time pass.              *)
(***************************************************************************)
VARIABLES
    utcnow,               \* the instant, in seconds since midnight UTC of day 0
    recorded,             \* the timed record_request calls made: instant, zone, day key
    observed              \* the last timed check_rate_limit call and what it returned

clockVars == << utcnow, recorded, observed >>

\* what no step of a call in progress changes
configVars == << redis_client, tenants, allow_all_tenants, clockVars >>
limiterVars == << configVars, store_up, store >>
procVars == << pc, rq, dirty, hist, http >>
vars == << budgetVars, last, limiterVars, procVars >>

(***************************************************************************)
(* Program constants.                                                      *)
(***************************************************************************)
MockIncrement == 10500          \* Decimal("10.50")
MillsPerDollar == 1000
MinuteTTL == 60                 \* expire(rpm_key, 60)
DayTTL == 86400                 \* expire(rpd_key, 86400)
days_in_month == 31
MonthTTL == days_in_month * 86400
NoTTL == 0 - 1                  \* a key without expiry (TTL answers -1)

BLOCK == "block"
THROTTLE == "throttle"
WARN == "warn"
BudgetEnforcement == {BLOCK, THROTTLE, WARN}
\* budget_enforcement is not validated on assignment: a value outside the enum
Policies == BudgetEnforcement \cup {"log"}

(***************************************************************************)
(* Input domains.                                                          *)
(***************************************************************************)
\* hash(tenant_id) % 1000: some whole number of dollars in 0..999, fixed for
\* the life of the process and read only when the tenant's entry is seeded.
MockBases == {69, 74}
\* amounts of single backend rows, in mills
RowCosts == {90000, 95000}
\* TenantConfig.budget_limit: Optional[float], no range constraint
BudgetLimits == {None, Some(0), Some(100000), Some(0 - 100000)}
\* TenantConfig.budget_threshold: int, ge=0, le=100
BudgetThresholds == {0, 90, 100}

\* no cost event tracked for any tenant, no total reported, none owed
NoCostLog == [t \in Tenants |-> [events |-> 0, reported |-> None, owed |-> None]]

RECURSIVE SumSeq(_)
SumSeq(s) == IF s = << >> THEN 0 ELSE Head(s) + SumSeq(Tail(s))

(***************************************************************************)
(* Number formatting.  Both round half to even, as Decimal.__format__.     *)
(***************************************************************************)
RoundHalfEven(n, d) ==
    LET q == n \div d
        r == n % d
    IN  IF 2 * r > d THEN q + 1
        ELSE IF 2 * r < d THEN q
        ELSE IF q % 2 = 0 THEN q ELSE q + 1

\* f"{amount:.2f}" of an amount in mills: the printed number of cents
Format2f(mills) == RoundHalfEven(mills, 10)
\* f"{percent:.1f}" of a rational percent: the printed number of tenths
Format1f(q) == RoundHalfEven(q.num * 10, q.den)

(***************************************************************************)
(* CostTracker                                                             *)
(***************************************************************************)
\* TenantCost(...) with the given number of CostBreakdown rows: validation
\* of a non-empty breakdowns list fails when the field is bound to the first
\* of the two CostBreakdown classes of models/cost.py.
TenantCostRaises(n_breakdowns, accepted) == n_breakdowns > 0 /\ ~accepted

\* _get_mock_costs: seeds the tenant's entry with the hash-based base cost,
\* adds 10.50 on every call, then builds four breakdown rows and the summary.
get_mock_costs(tenant_id, mock, base, accepted) ==
    LET seeded == IF tenant_id \in DOMAIN mock THEN mock
                  ELSE mock @@ (tenant_id :> base * MillsPerDollar)
        bumped == [seeded EXCEPT ![tenant_id] = @ + MockIncrement]
    IN  [raised |-> TenantCostRaises(4, accepted),
         total_cost |-> bumped[tenant_id],
         mock_costs |-> bumped,
         path |-> "mock"]

\* get_tenant_costs over the default period
get_tenant_costs(tenant_id, client, up, rows, mock, base, accepted) ==
    IF client = "None" THEN get_mock_costs(tenant_id, mock, base, accepted)
    ELSE IF up /\ ~TenantCostRaises(Len(rows[tenant_id]), accepted)
         THEN [raised |-> FALSE,
               total_cost |-> SumSeq(rows[tenant_id]),
               mock_costs |-> mock,
               path |-> "backend"]
         ELSE [get_mock_costs(tenant_id, mock, base, accepted)
                 EXCEPT !.path = "fallback"]

(***************************************************************************)
(* BudgetEnforcer.check_budget                                             *)
(***************************************************************************)
\* usage_percent as an exact rational num/den with den > 0
UsagePercent(current_cost, budget_limit) ==
    IF budget_limit > 0 THEN [num |-> current_cost * 100, den |-> budget_limit]
    ELSE [num |-> 0, den |-> 1]

RatLessOrEqual(q, n) == q.num <= n * q.den

\* usage_percent < threshold (line 54)
RatLess(q, n) == q.num < n * q.den

Allow == [allowed |-> TRUE, reason |-> None, alert |-> None]

BudgetAlert(tenant_config, current_cost, usage) ==
    [tenant_id |-> tenant_config.id,
     budget_limit |-> Val(tenant_config.budget_limit),
     current_cost |-> current_cost,
     threshold |-> tenant_config.budget_threshold,
     usage_percent |-> usage]

\* the decision with every policy enforced as BLOCK
BudgetDecisionBlocking(tenant_config, current_cost) ==
    LET budget_limit == Val(tenant_config.budget_limit)
        usage == UsagePercent(current_cost, budget_limit)
    IN  IF RatLess(usage, tenant_config.budget_threshold) THEN Allow
        ELSE [allowed |-> FALSE,
              reason |-> Some([kind |-> "Budget exceeded",
                               cost |-> Format2f(current_cost),
                               limit |-> Format2f(budget_limit),
                               percent |-> Format1f(usage)]),
              alert |-> Some(BudgetAlert(tenant_config, current_cost, usage))]

\* lines 43-88: the decision once the cost summary is at hand
BudgetDecision(tenant_config, current_cost) ==
    LET budget_limit == Val(tenant_config.budget_limit)
        threshold == tenant_config.budget_threshold
        usage == UsagePercent(current_cost, budget_limit)
        alert == BudgetAlert(tenant_config, current_cost, usage)
        enforcement == tenant_config.budget_enforcement
        warning == Some([kind |-> "Budget warning", percent |-> Format1f(usage)])
    IN  IF RatLess(usage, threshold) THEN Allow
        ELSE IF enforcement = BLOCK
             THEN [allowed |-> FALSE,
                   reason |-> Some([kind |-> "Budget exceeded",
                                    cost |-> Format2f(current_cost),
                                    limit |-> Format2f(budget_limit),
                                    percent |-> Format1f(usage)]),
                   alert |-> Some(alert)]
        ELSE IF enforcement = THROTTLE
             THEN [allowed |-> TRUE, reason |-> warning, alert |-> Some(alert)]
        ELSE IF enforcement = WARN
             THEN [allowed |-> TRUE, reason |-> warning, alert |-> Some(alert)]
        ELSE [allowed |-> TRUE, reason |-> None, alert |-> Some(alert)]

\* Whether check_budget goes on to the cost ledger (line 40).
BudgetLimitSet(tenant_config) == Truthy(tenant_config.budget_limit)

\* check_budget with the cost summary fetched before the limit is looked at
check_budget_eager(tenant_config, client, up, rows, mock, base, accepted) ==
    LET costs == get_tenant_costs(tenant_config.id, client, up, rows, mock,
                                  base, accepted)
    IN  IF ~BudgetLimitSet(tenant_config) \/ costs.raised
        THEN [result |-> Allow, mock_costs |-> costs.mock_costs, fetch |-> costs.path,
              raised |-> costs.raised, total_cost |-> None]
        ELSE [result |-> BudgetDecision(tenant_config, costs.total_cost),
              mock_costs |-> costs.mock_costs, fetch |-> costs.path,
              raised |-> FALSE, total_cost |-> Some(costs.total_cost)]

\* check_budget: the result, the ledger after the call, and what it did
check_budget(tenant_config, client, up, rows, mock, base, accepted) ==
    IF ~BudgetLimitSet(tenant_config)
    THEN [result |-> Allow, mock_costs |-> mock, fetch |-> "none", raised |-> FALSE,
          total_cost |-> None]
    ELSE LET costs == get_tenant_costs(tenant_config.id, client, up, rows, mock,
                                       base, accepted)
         IN  IF costs.raised
             THEN [result |-> Allow, mock_costs |-> costs.mock_costs,
                   fetch |-> costs.path, raised |-> TRUE, total_cost |-> None]
             ELSE [result |-> BudgetDecision(tenant_config, costs.total_cost),
                   mock_costs |-> costs.mock_costs, fetch |-> costs.path,
                   raised |-> FALSE, total_cost |-> Some(costs.total_cost)]

(***************************************************************************)
(* The counter store (Redis) commands the rate limiter uses.               *)
(***************************************************************************)
SecondsPerDay == 86400

\* strftime('%Y-%m-%d') of a datetime: its calendar day, counted from day 0
Date(instant) == instant \div SecondsPerDay

\* datetime.now() in a process whose zone is `offset` seconds east of UTC
LocalNow(offset) == utcnow + offset

\* datetime.utcnow() in that process: the zone plays no part
UtcNow(offset) == utcnow

\* f"ratelimit:rpm:{tenant_id}": no time bucket
rpm_key(tenant_id) == << "rpm", tenant_id >>
\* f"ratelimit:rpd:{tenant_id}:{datetime.utcnow().strftime('%Y-%m-%d')}"
rpd_key_in(tenant_id, offset) == << "rpd", tenant_id, Date(UtcNow(offset)) >>
rpd_key(tenant_id) == rpd_key_in(tenant_id, 0)
\* f"ratelimit:monthly:{tenant_id}:{...strftime('%Y-%m')}": the clock of the
\* model stays within one calendar month
monthly_key(tenant_id) == << "monthly", tenant_id >>
KeysOf(tenant_id) == {rpm_key(tenant_id), rpd_key(tenant_id), monthly_key(tenant_id)}

\* GET: the count, or None for an absent key
Get(st, k) == IF k \in DOMAIN st THEN Some(st[k].count) ELSE None

\* INCR with the read and the write as one store operation gone wrong:
\* an existing count is written back unchanged
IncrLost(st, k) ==
    IF k \in DOMAIN st THEN st ELSE (k :> [count |-> 1, ttl |-> NoTTL]) @@ st

\* INCR: atomic at the store; creates the key at 1, without expiry
Incr(st, k) ==
    IF k \in DOMAIN st THEN [st EXCEPT ![k].count = @ + 1]
    ELSE (k :> [count |-> 1, ttl |-> NoTTL]) @@ st

\* the expiry written as SET key 1 EX seconds: the count starts over
ExpireRewriting(st, k, seconds) ==
    IF k \in DOMAIN st THEN [st EXCEPT ![k] = [count |-> 1, ttl |-> seconds]] ELSE st

\* EXPIRE: (re)sets the time to live of an existing key
Expire(st, k, seconds) ==
    IF k \in DOMAIN st THEN [st EXCEPT ![k].ttl = seconds] ELSE st

\* the key is gone (TTL ran out)
Remove(st, k) == [x \in DOMAIN st \ {k} |-> st[x]]

\* the number a counter stands at, an absent counter counting as 0
CountOf(st, k) == IF k \in DOMAIN st THEN st[k].count ELSE 0

(***************************************************************************)
(* RateLimiter.check_rate_limit and record_request, one step per await.    *)
(***************************************************************************)
\* "if rpm_count and int(rpm_count) >= rpm_limit": GET answers None or a
\* non-empty string, and every non-empty string is truthy
\* an absent counter taken for one at its limit
OverLimitOrAbsent(count, limit) == count = None \/ Val(count) >= limit

\* "if rpm_count and int(rpm_count) >= rpm_limit" (lines 78, 85, 93)
OverLimit(count, limit) == count # None /\ Val(count) >= limit

CheckAllow == [allowed |-> TRUE, reason |-> None]
CheckDeny(window, limit) ==
    [allowed |-> FALSE, reason |-> Some([window |-> window, limit |-> limit])]

\* "if monthly_limit:" (lines 89 and 134)
MonthlyTracked(monthly_limit) == Truthy(monthly_limit)

NoFrame == [op |-> "none", tenant_id |-> "a", rpm_limit |-> 0, rpd_limit |-> 0,
            monthly_limit |-> None, ret |-> CheckAllow, via |-> "none", incrs |-> 0]

InCheck(p) == pc[p] \in {"check_rpm", "check_rpd", "check_monthly"}
InRecord(p) == pc[p] \in {"rec_incr_rpm", "rec_exp_rpm", "rec_incr_rpd", "rec_exp_rpd",
                           "rec_incr_monthly", "rec_exp_monthly"}

\* reset_limits past its scan
PastScan(p) == pc[p] \in {"reset_del", "reset_ret"}

\* every store change is noted for the checks in progress or just returned,
\* and for the resets past their scan
Disturb == [q \in Procs |-> dirty[q] \/ InCheck(q) \/ pc[q] = "check_ret" \/ PastScan(q)]

NoHist == [records |-> 0, monthly |-> 0, disturbed |-> FALSE, failed_open |-> FALSE]
\* a record_request of the tenant ran to its end
Completed(h, t, monthly_limit) ==
    IF h[t].disturbed THEN h
    ELSE [h EXCEPT ![t].records = @ + 1,
                   ![t].monthly = @ + (IF MonthlyTracked(monthly_limit) THEN 1 ELSE 0)]
\* an expiry, a failed record or a reset touched the tenant's counters
Disturbed(h, t) ==
    [h EXCEPT ![t] = [NoHist EXCEPT !.disturbed = TRUE, !.failed_open = h[t].failed_open]]

\* check_rate_limit is entered (lines 69-71)
CallCheck(p, t, rpm_limit, rpd_limit, monthly_limit) ==
    /\ rq' = [rq EXCEPT ![p] =
                [op |-> "check", tenant_id |-> t, rpm_limit |-> rpm_limit,
                 rpd_limit |-> rpd_limit, monthly_limit |-> monthly_limit,
                 ret |-> CheckAllow,
                 via |-> IF redis_client = "None" THEN "mock" ELSE "none",
                 incrs |-> 0]]
    /\ pc' = [pc EXCEPT ![p] = IF redis_client = "None" THEN "check_ret" ELSE "check_rpm"]
    /\ dirty' = [dirty EXCEPT ![p] = FALSE]

\* the except clause answering a denial instead
OnCheckErrorDeny == CheckDeny("store", 0)

\* "except Exception: ... return True, None" (lines 98-101)
OnCheckError == CheckAllow

\* a GET that creates the key it reads
AfterGetCreating(st, k) ==
    IF k \in DOMAIN st THEN st ELSE (k :> [count |-> 0, ttl |-> NoTTL]) @@ st

\* the store after a GET: as before
AfterGet(st, k) == st

\* one GET of check_rate_limit and the test on it; a failing GET is caught
\* and the call fails open (lines 98-101)
CheckWindow(p, window, key, limit, next) ==
    /\ store' = IF store_up THEN AfterGet(store, key) ELSE store
    /\ IF ~store_up
       THEN /\ rq' = [rq EXCEPT ![p].ret = OnCheckError, ![p].via = "fail_open"]
            /\ pc' = [pc EXCEPT ![p] = "check_ret"]
       ELSE IF OverLimit(Get(store, key), limit)
       THEN /\ rq' = [rq EXCEPT ![p].ret = CheckDeny(window, limit), ![p].via = "checked"]
            /\ pc' = [pc EXCEPT ![p] = "check_ret"]
       ELSE /\ rq' = [rq EXCEPT ![p].ret = CheckAllow,
                                 ![p].via = IF next = "check_ret" THEN "checked" ELSE @]
            /\ pc' = [pc EXCEPT ![p] = next]
    /\ UNCHANGED << configVars, store_up, dirty, hist, http, budgetVars, last >>

CheckRpm(p) ==
    /\ pc[p] = "check_rpm"
    /\ CheckWindow(p, "rpm", rpm_key(rq[p].tenant_id), rq[p].rpm_limit, "check_rpd")

CheckRpd(p) ==
    /\ pc[p] = "check_rpd"
    /\ CheckWindow(p, "rpd", rpd_key(rq[p].tenant_id), rq[p].rpd_limit,
                   IF MonthlyTracked(rq[p].monthly_limit) THEN "check_monthly"
                   ELSE "check_ret")

CheckMonthly(p) ==
    /\ pc[p] = "check_monthly"
    /\ CheckWindow(p, "monthly", monthly_key(rq[p].tenant_id), Val(rq[p].monthly_limit),
                   "check_ret")

\* record_request is entered (lines 119-120)
CallRecord(p, t, rpm_limit, rpd_limit, monthly_limit) ==
    /\ rq' = [rq EXCEPT ![p] =
                [op |-> "record", tenant_id |-> t, rpm_limit |-> rpm_limit,
                 rpd_limit |-> rpd_limit, monthly_limit |-> monthly_limit,
                 ret |-> CheckAllow,
                 via |-> IF redis_client = "None" THEN "mock" ELSE "none",
                 incrs |-> 0]]
    /\ pc' = [pc EXCEPT ![p] = IF redis_client = "None" THEN "rec_ret" ELSE "rec_incr_rpm"]

\* the except clause raising the error on to the caller
RecordErrorPropagates == TRUE

\* "except Exception as e: logger.error(...)" (lines 143-144): the error is
\* logged, nothing is raised
RecordErrorRaises == FALSE

\* one store command of record_request; a failing command is caught and
\* logged, and the call returns (lines 143-144)
RecordCommand(p, key, after, next) ==
    /\ IF ~store_up
       THEN /\ rq' = [rq EXCEPT ![p].via = IF RecordErrorRaises THEN "raised" ELSE "failed"]
            /\ pc' = [pc EXCEPT ![p] = "rec_ret"]
            /\ hist' = Disturbed(hist, rq[p].tenant_id)
            /\ UNCHANGED << store, dirty >>
       ELSE /\ store' = after
            /\ dirty' = Disturb
            /\ rq' = [rq EXCEPT ![p].via = IF next = "rec_ret" THEN "recorded" ELSE @,
                                 ![p].incrs = IF CountOf(after, key) > CountOf(store, key)
                                              THEN @ + 1 ELSE @]
            /\ pc' = [pc EXCEPT ![p] = next]
            /\ hist' = IF next = "rec_ret"
                       THEN Completed(hist, rq[p].tenant_id, rq[p].monthly_limit)
                       ELSE hist
    /\ UNCHANGED << configVars, store_up, http, budgetVars, last >>

RecIncrRpm(p) ==
    /\ pc[p] = "rec_incr_rpm"
    /\ RecordCommand(p, rpm_key(rq[p].tenant_id), Incr(store, rpm_key(rq[p].tenant_id)), "rec_exp_rpm")

RecExpireRpm(p) ==
    /\ pc[p] = "rec_exp_rpm"
    /\ RecordCommand(p, rpm_key(rq[p].tenant_id), Expire(store, rpm_key(rq[p].tenant_id), MinuteTTL), "rec_incr_rpd")

RecIncrRpd(p) ==
    /\ pc[p] = "rec_incr_rpd"
    /\ RecordCommand(p, rpd_key(rq[p].tenant_id), Incr(store, rpd_key(rq[p].tenant_id)), "rec_exp_rpd")

RecExpireRpd(p) ==
    /\ pc[p] = "rec_exp_rpd"
    /\ RecordCommand(p, rpd_key(rq[p].tenant_id), Expire(store, rpd_key(rq[p].tenant_id), DayTTL),
                     IF MonthlyTracked(rq[p].monthly_limit) THEN "rec_incr_monthly"
                     ELSE "rec_ret")

RecIncrMonthly(p) ==
    /\ pc[p] = "rec_incr_monthly"
    /\ RecordCommand(p, monthly_key(rq[p].tenant_id), Incr(store, monthly_key(rq[p].tenant_id)), "rec_exp_monthly")

RecExpireMonthly(p) ==
    /\ pc[p] = "rec_exp_monthly"
    /\ RecordCommand(p, monthly_key(rq[p].tenant_id), Expire(store, monthly_key(rq[p].tenant_id), MonthTTL), "rec_ret")

(***************************************************************************)
(* The store's own behaviour: outages and key expiry.                      *)
(***************************************************************************)
StoreFail ==
    /\ redis_client = "Redis" /\ store_up
    /\ store_up' = FALSE
    /\ UNCHANGED << configVars, store, procVars, budgetVars, last >>

StoreRecover ==
    /\ ~store_up
    /\ store_up' = TRUE
    /\ UNCHANGED << configVars, store, procVars, budgetVars, last >>

\* the time to live of a key runs out
ExpireKey(k) ==
    /\ k \in DOMAIN store /\ store[k].ttl # NoTTL
    /\ store' = Remove(store, k)
    /\ dirty' = Disturb
    /\ hist' = Disturbed(hist, k[2])
    /\ UNCHANGED << configVars, store_up, pc, rq, http, budgetVars, last >>

(***************************************************************************)
(* The rate limiter called directly by concurrent callers.                 *)
(***************************************************************************)
\* TenantConfig, the fields the services read (models/tenant.py)
\* enforcement_given: the policy was named in the configuration input and is
\* held as its plain string (use_enum_values); the default is held as the
\* enum member
TenantConfig(t, rpm, rpd, monthly) ==
    [id |-> t, enabled |-> TRUE,
     rate_limit_rpm |-> rpm, rate_limit_rpd |-> rpd, quota_monthly_requests |-> monthly,
     budget_limit |-> None, budget_threshold |-> 90, budget_enforcement |-> BLOCK,
     enforcement_given |-> FALSE]

\* << rate_limit_rpm, rate_limit_rpd, quota_monthly_requests >>: every limit
\* positive, a zero minute limit without monthly quota, a zero day limit
LimitProfiles ==
    {<< MaxLimit, MaxLimit, MaxLimit >>, << 0, MaxLimit, 0 >>, << MaxLimit, 0, MaxLimit >>}

LimiterConfigs(t) == {TenantConfig(t, l[1], l[2], l[3]) : l \in LimitProfiles}

\* the limiter's caller: the active tenant
ActiveTenants == {"a"}

\* call slots are taken lowest first
FreeSlot(p) == pc[p] = "idle" /\ \A q \in Procs : q < p => pc[q] # "idle"

\* monthly_limit is optional: omitted, or the tenant's monthly quota
MonthlyArgs(t) == {None, Some(tenants[t].quota_monthly_requests)}

\* no budget call in progress
NoObservation == [at |-> 0, zone |-> 0, rpm_limit |-> 0, rpd_limit |-> 0, ret |-> CheckAllow]

\* the clock stands still at the start of day 0
ClockIdle == utcnow = 0 /\ recorded = << >> /\ observed = NoObservation

NoCall == [op |-> "none", tenant |-> "a", config |-> None, fetch |-> "none",
           raised |-> FALSE, total_cost |-> None, result |-> Allow]

\* counters grow without bound: no call starts for a tenant with a counter
\* at MaxCount
CountRoom(t) == \A k \in KeysOf(t) : CountOf(store, k) < MaxCount

BudgetIdle ==
    /\ cost_client = "None" /\ azure_up = TRUE
    /\ azure_rows = [t \in Tenants |-> << >>]
    /\ mock_costs = << >> /\ breakdowns_accepted = TRUE
    /\ cost_log = NoCostLog
    /\ last = NoCall

\* no HTTP request in the slot
NoRequest == [path |-> << >>, header |-> "a", status |-> 0, error |-> "", detail |-> None,
              quota |-> "none", budget |-> "none", budget_calls |-> 0, warning |-> None]

ProcsIdle ==
    /\ pc = [p \in Procs |-> "idle"]
    /\ rq = [p \in Procs |-> NoFrame]
    /\ http = [p \in Procs |-> NoRequest]
    /\ dirty = [p \in Procs |-> FALSE]
    /\ hist = [t \in Tenants |-> NoHist]

InitLimiter ==
    /\ redis_client \in {"None", "Redis"}
    /\ tenants \in [Tenants -> UNION {LimiterConfigs(t) : t \in Tenants}]
    /\ \A t \in Tenants : tenants[t].id = t
    /\ \A t \in Tenants \ ActiveTenants : tenants[t] = TenantConfig(t, MaxLimit, MaxLimit, MaxLimit)
    /\ allow_all_tenants = TRUE
    /\ store_up = TRUE
    /\ store = << >>
    /\ ProcsIdle
    /\ ClockIdle
    /\ BudgetIdle

StartCheck(p, t) ==
    /\ FreeSlot(p)
    /\ \E monthly \in MonthlyArgs(t) :
          CallCheck(p, t, tenants[t].rate_limit_rpm, tenants[t].rate_limit_rpd, monthly)
    /\ UNCHANGED << limiterVars, hist, http, budgetVars, last >>

StartRecord(p, t) ==
    /\ FreeSlot(p)
    /\ CountRoom(t)
    /\ \E monthly \in MonthlyArgs(t) :
          CallRecord(p, t, tenants[t].rate_limit_rpm, tenants[t].rate_limit_rpd, monthly)
    /\ UNCHANGED << limiterVars, dirty, hist, http, budgetVars, last >>

\* the caller takes the return value
ReturnCall(p) ==
    /\ pc[p] \in {"check_ret", "rec_ret", "stats_ret", "reset_ret"}
    /\ pc' = [pc EXCEPT ![p] = "idle"]
    /\ rq' = [rq EXCEPT ![p] = NoFrame]
    /\ dirty' = [dirty EXCEPT ![p] = FALSE]
    /\ UNCHANGED << limiterVars, hist, http, budgetVars, last >>

LimiterSteps(p) ==
    \/ CheckRpm(p) \/ CheckRpd(p) \/ CheckMonthly(p)
    \/ RecIncrRpm(p) \/ RecExpireRpm(p) \/ RecIncrRpd(p) \/ RecExpireRpd(p)
    \/ RecIncrMonthly(p) \/ RecExpireMonthly(p)

NextLimiter ==
    \/ \E p \in Procs, t \in ActiveTenants : StartCheck(p, t)
    \/ \E p \in Procs, t \in ActiveTenants : StartRecord(p, t)
    \/ \E p \in Procs : LimiterSteps(p)
    \/ \E p \in Procs : ReturnCall(p)
    \/ StoreFail
    \/ StoreRecover
    \/ \E t \in Tenants : \E k \in KeysOf(t) : ExpireKey(k)

SpecLimiter == InitLimiter /\ [][NextLimiter]_vars

(***************************************************************************)
(* RateLimiter.get_usage_stats and reset_limits, one step per await, and   *)
(* the rate limiter with all four of its calls in use, the store staying   *)
(* up.                                                                     *)
(***************************************************************************)
NoUsage == [rpm |-> 0, rpd |-> 0, monthly |-> 0, flag |-> "none"]

\* the characters of a tenant id
Spelling(tenant_id) ==
    CASE tenant_id = "a" -> << "a" >>
      [] tenant_id = "ab" -> << "a", "b" >>
      [] OTHER -> << tenant_id >>

\* the glob without its trailing star: only the key that ends with the id
MatchesToTheEnd(tenant_id, k) == k = rpm_key(tenant_id)

\* the glob f"ratelimit:*:{tenant_id}*" (line 204) against a key: the id in
\* the key begins with tenant_id
Matches(tenant_id, k) == IsPrefix(Spelling(tenant_id), Spelling(k[2]))

\* get_usage_stats is entered; mock mode answers zeros (lines 156-162)
CallStats(p, t) ==
    /\ rq' = [rq EXCEPT ![p] =
                [op |-> "stats", tenant_id |-> t, rpm_limit |-> 0, rpd_limit |-> 0,
                 monthly_limit |-> None, ret |-> CheckAllow,
                 via |-> IF redis_client = "None" THEN "mock" ELSE "none", incrs |-> 0,
                 usage |-> [NoUsage EXCEPT !.flag = IF redis_client = "None"
                                                    THEN "mock_mode" ELSE "none"]]]
    /\ pc' = [pc EXCEPT ![p] = IF redis_client = "None" THEN "stats_ret" ELSE "stats_rpm"]

\* one GET of get_usage_stats (lines 169-171), "int(count) if count else 0"
\* (lines 174-176); a failing GET answers zeros and the error (lines 180-187)
StatsGet(p, field, key, next) ==
    /\ store' = IF store_up THEN AfterGet(store, key) ELSE store
    /\ IF ~store_up
       THEN /\ rq' = [rq EXCEPT ![p].usage = [NoUsage EXCEPT !.flag = "error"],
                                ![p].via = "failed"]
            /\ pc' = [pc EXCEPT ![p] = "stats_ret"]
       ELSE /\ rq' = [rq EXCEPT ![p].usage[field] = CountOf(store, key)]
            /\ pc' = [pc EXCEPT ![p] = next]
    /\ UNCHANGED << configVars, store_up, dirty, hist, http, budgetVars, last >>

StatsRpm(p) ==
    /\ pc[p] = "stats_rpm"
    /\ StatsGet(p, "rpm", rpm_key(rq[p].tenant_id), "stats_rpd")

StatsRpd(p) ==
    /\ pc[p] = "stats_rpd"
    /\ StatsGet(p, "rpd", rpd_key(rq[p].tenant_id), "stats_monthly")

StatsMonthly(p) ==
    /\ pc[p] = "stats_monthly"
    /\ StatsGet(p, "monthly", monthly_key(rq[p].tenant_id), "stats_ret")

\* the handler answering True as well
ResetErrorSucceeds == TRUE

\* what reset_limits returns from its exception handler (line 217)
ResetErrorReturn == FALSE

\* reset_limits is entered; mock mode answers True (lines 199-200)
CallReset(p, t) ==
    /\ rq' = [rq EXCEPT ![p] =
                [op |-> "reset", tenant_id |-> t, rpm_limit |-> 0, rpd_limit |-> 0,
                 monthly_limit |-> None, ret |-> CheckAllow,
                 via |-> IF redis_client = "None" THEN "mock" ELSE "none", incrs |-> 0,
                 keys |-> {}, ok |-> TRUE]]
    /\ pc' = [pc EXCEPT ![p] = IF redis_client = "None" THEN "reset_ret" ELSE "reset_scan"]

\* scan_iter collects the matching keys (lines 204-207); with none found the
\* call returns True; a failing scan returns False (lines 215-217)
ResetScan(p) ==
    /\ pc[p] = "reset_scan"
    /\ LET keys == {k \in DOMAIN store : Matches(rq[p].tenant_id, k)}
       IN  IF ~store_up
           THEN /\ rq' = [rq EXCEPT ![p].ok = ResetErrorReturn, ![p].via = "failed"]
                /\ pc' = [pc EXCEPT ![p] = "reset_ret"]
           ELSE /\ rq' = [rq EXCEPT ![p].keys = keys]
                /\ pc' = [pc EXCEPT ![p] = IF keys = {} THEN "reset_ret" ELSE "reset_del"]
    /\ UNCHANGED << limiterVars, dirty, hist, http, budgetVars, last >>

\* the delete of line 210: one command removing every key collected
ResetDelete(p) ==
    /\ pc[p] = "reset_del"
    /\ IF ~store_up
       THEN /\ rq' = [rq EXCEPT ![p].ok = ResetErrorReturn, ![p].via = "failed"]
            /\ UNCHANGED << store, dirty, hist >>
       ELSE /\ store' = [k \in DOMAIN store \ rq[p].keys |-> store[k]]
            /\ rq' = [rq EXCEPT ![p].via = "reset"]
            /\ dirty' = [Disturb EXCEPT ![p] = dirty[p]]
            /\ hist' = [t \in Tenants |->
                          IF \E k \in rq[p].keys : k[2] = t
                          THEN Disturbed(hist, t)[t] ELSE hist[t]]
    /\ pc' = [pc EXCEPT ![p] = "reset_ret"]
    /\ UNCHANGED << configVars, store_up, http, budgetVars, last >>

InitUsage ==
    /\ redis_client \in {"None", "Redis"}
    /\ tenants = [t \in Tenants |-> TenantConfig(t, MaxLimit, MaxLimit, MaxLimit)]
    /\ allow_all_tenants = TRUE
    /\ store_up = TRUE
    /\ store = << >>
    /\ ProcsIdle
    /\ ClockIdle
    /\ BudgetIdle

StartStats(p, t) ==
    /\ FreeSlot(p)
    /\ CallStats(p, t)
    /\ UNCHANGED << limiterVars, dirty, hist, http, budgetVars, last >>

StartReset(p, t) ==
    /\ FreeSlot(p)
    /\ CallReset(p, t)
    /\ UNCHANGED << limiterVars, dirty, hist, http, budgetVars, last >>

UsageSteps(p) ==
    \/ StatsRpm(p) \/ StatsRpd(p) \/ StatsMonthly(p)
    \/ ResetScan(p) \/ ResetDelete(p)

NextUsage ==
    \/ \E p \in Procs, t \in ActiveTenants : StartCheck(p, t)
    \/ \E p \in Procs, t \in ActiveTenants : StartRecord(p, t)
    \/ \E p \in Procs, t \in ActiveTenants : StartStats(p, t)
    \/ \E p \in Procs, t \in ActiveTenants : StartReset(p, t)
    \/ \E p \in Procs : LimiterSteps(p)
    \/ \E p \in Procs : UsageSteps(p)
    \/ \E p \in Procs : ReturnCall(p)
    \/ \E t \in Tenants : \E k \in KeysOf(t) : ExpireKey(k)

SpecUsage == InitUsage /\ [][NextUsage]_vars

\* the same calls with the counter store failing and recovering under them
NextUsageOutage ==
    \/ \E p \in Procs, t \in ActiveTenants : StartCheck(p, t)
    \/ \E p \in Procs, t \in ActiveTenants : StartRecord(p, t)
    \/ \E p \in Procs, t \in ActiveTenants : StartStats(p, t)
    \/ \E p \in Procs, t \in ActiveTenants : StartReset(p, t)
    \/ \E p \in Procs : LimiterSteps(p)
    \/ \E p \in Procs : UsageSteps(p)
    \/ \E p \in Procs : ReturnCall(p)
    \/ StoreFail
    \/ StoreRecover

SpecUsageOutage == InitUsage /\ [][NextUsageOutage]_vars

\* the same calls made for every tenant, "a" and "ab" alike, one call at a time
OneAtATime == \A q \in Procs : pc[q] = "idle"

NextUsageAll ==
    \/ \E p \in Procs, t \in Tenants : OneAtATime /\ StartCheck(p, t)
    \/ \E p \in Procs, t \in Tenants : OneAtATime /\ StartRecord(p, t)
    \/ \E p \in Procs, t \in Tenants : OneAtATime /\ StartStats(p, t)
    \/ \E p \in Procs, t \in Tenants : OneAtATime /\ StartReset(p, t)
    \/ \E p \in Procs : LimiterSteps(p)
    \/ \E p \in Procs : UsageSteps(p)
    \/ \E p \in Procs : ReturnCall(p)

SpecUsageAll == InitUsage /\ [][NextUsageAll]_vars

(***************************************************************************)
(* The budget services called directly (routers/budgets.py, costs.py).     *)
(***************************************************************************)
BudgetConfigs(t) ==
    [id : {t}, budget_limit : BudgetLimits, budget_threshold : BudgetThresholds,
     budget_enforcement : Policies]


\* _mock_costs grows by 10.50 with every query: the model stops querying a
\* tenant after MaxMockQueries increments.
MockRoom(t) ==
    t \in DOMAIN mock_costs =>
        \E b \in MockBases, k \in 1..(MaxMockQueries - 1) :
            mock_costs[t] = b * MillsPerDollar + k * MockIncrement

\* the hash values a call may meet: it matters only while the entry is unseeded
HashChoices(t) == IF t \in DOMAIN mock_costs THEN {0} ELSE MockBases

InitBudget ==
    /\ cost_client \in {"None", "client"}
    /\ azure_up = TRUE
    /\ azure_rows = [t \in Tenants |-> << >>]
    /\ mock_costs = << >>
    /\ breakdowns_accepted \in BOOLEAN
    /\ cost_log = NoCostLog
    /\ last = NoCall
    /\ redis_client = "None" /\ store_up = TRUE /\ store = << >>
    /\ tenants = [t \in Tenants |-> TenantConfig(t, MaxLimit, MaxLimit, MaxLimit)]
    /\ allow_all_tenants = TRUE
    /\ ProcsIdle
    /\ ClockIdle

\* POST /api/budgets/check, and the cost gate: one check_budget call
CheckBudget(t) ==
    /\ last.op = "none"
    /\ MockRoom(t)
    /\ \E cfg \in BudgetConfigs(t), base \in HashChoices(t) :
        LET out == check_budget(cfg, cost_client, azure_up, azure_rows, mock_costs,
                                base, breakdowns_accepted)
        IN  /\ mock_costs' = out.mock_costs
            /\ last' = [op |-> "check_budget", tenant |-> t, config |-> Some(cfg),
                        fetch |-> out.fetch, raised |-> out.raised,
                        total_cost |-> out.total_cost, result |-> out.result]
    /\ UNCHANGED << cost_client, azure_up, azure_rows, breakdowns_accepted, cost_log,
                    limiterVars, procVars >>

\* The cost backend becomes unreachable, or reachable again.
AzureFail ==
    /\ last.op = "none"
    /\ cost_client = "client" /\ azure_up
    /\ azure_up' = FALSE
    /\ UNCHANGED << cost_client, azure_rows, mock_costs, breakdowns_accepted, cost_log, last,
                    limiterVars, procVars >>

AzureRecover ==
    /\ last.op = "none"
    /\ ~azure_up
    /\ azure_up' = TRUE
    /\ UNCHANGED << cost_client, azure_rows, mock_costs, breakdowns_accepted, cost_log, last,
                    limiterVars, procVars >>

\* The billing backend books another cost row for a tenant.
AzureCostAccrues(t) ==
    /\ last.op = "none"
    /\ cost_client = "client"
    /\ Len(azure_rows[t]) < MaxRows
    /\ \E c \in RowCosts : azure_rows' = [azure_rows EXCEPT ![t] = Append(@, c)]
    /\ UNCHANGED << cost_client, azure_up, mock_costs, breakdowns_accepted, cost_log, last,
                    limiterVars, procVars >>

\* The caller takes the returned value.
Return ==
    /\ last.op # "none"
    /\ last' = NoCall
    /\ UNCHANGED << budgetVars, limiterVars, procVars >>

NextBudget ==
    \/ \E t \in Tenants : CheckBudget(t)
    \/ Return
    \/ AzureFail
    \/ AzureRecover
    \/ \E t \in Tenants : AzureCostAccrues(t)

SpecBudget == InitBudget /\ [][NextBudget]_vars

(***************************************************************************)
(* BudgetEnforcer.get_throttle_factor, on exact rationals.                 *)
(***************************************************************************)
Percent(n) == n * PercentUnit
Usages == 0..Percent(MaxUsage)
Thresholds == 0..Percent(100)

Ratio(n, d) == IF d < 0 THEN [num |-> 0 - n, den |-> 0 - d] ELSE [num |-> n, den |-> d]
RatLeq(q, r) == q.num * r.den <= r.num * q.den
RatEq(q, r) == q.num * r.den = r.num * q.den

\* the branch of line 234 left out
HighBandMissing(usage_percent) == FALSE

\* "elif usage_percent >= 95" (line 234)
HighBand(usage_percent) == usage_percent >= Percent(95)

\* the ramp running from 1.0 at the threshold down to 0 at 95
RampToZero(usage_percent, threshold) ==
    Ratio(Percent(95) - usage_percent, Percent(95) - threshold)

\* lines 238-239: 1.0 - 0.5 * (usage_percent - threshold) / (95 - threshold)
Ramp(usage_percent, threshold) ==
    Ratio(2 * (Percent(95) - threshold) - (usage_percent - threshold),
          2 * (Percent(95) - threshold))

Factor(n, d) == [factor |-> Some(Ratio(n, d)), divisor |-> None]

\* get_throttle_factor (lines 229-241): the factor returned and the divisor
\* of the ramp when the ramp is evaluated; dividing by zero raises
get_throttle_factor(usage_percent, threshold) ==
    IF usage_percent < threshold THEN Factor(1, 1)
    ELSE IF usage_percent >= Percent(100) THEN Factor(1, 10)
    ELSE IF HighBand(usage_percent) THEN Factor(1, 4)
    ELSE IF usage_percent >= threshold
         THEN [factor |-> IF Percent(95) - threshold = 0 THEN None
                          ELSE Some(Ramp(usage_percent, threshold)),
               divisor |-> Some(Percent(95) - threshold)]
         ELSE Factor(1, 1)

InitThrottle ==
    /\ redis_client = "None" /\ store_up = TRUE /\ store = << >>
    /\ tenants = [t \in Tenants |-> TenantConfig(t, MaxLimit, MaxLimit, MaxLimit)]
    /\ allow_all_tenants = TRUE
    /\ ProcsIdle
    /\ ClockIdle
    /\ BudgetIdle

GetThrottleFactor ==
    /\ last.op = "none"
    /\ \E usage_percent \in Usages, threshold \in Thresholds :
          last' = [op |-> "get_throttle_factor", usage_percent |-> usage_percent,
                   threshold |-> threshold,
                   result |-> get_throttle_factor(usage_percent, threshold)]
    /\ UNCHANGED << budgetVars, limiterVars, procVars >>

NextThrottle ==
    \/ GetThrottleFactor
    \/ Return

SpecThrottle == InitThrottle /\ [][NextThrottle]_vars

(***************************************************************************)
(* The cost tracker called directly (routers/costs.py, routers/chat.py).   *)
(***************************************************************************)
\* cost of one chat request: tokens * 0.00002 USD, in mills (1000 tokens)
TrackedAmounts == {20}
\* (period_end - period_start).days of the default period: the day of the
\* month less one
ElapsedDays == {0, 15}
\* days_ahead of GET /api/costs/{tenant_id}/forecast
DaysAhead == {30}
\* rows answered by the backend to the ForecastCost query, in mills
ForecastRows == {<< >>, << 120000 >>}

OptionOr(o, default) == IF o = None THEN default ELSE Val(o)
Max(a, b) == IF a >= b THEN a ELSE b

\* what the tracker holds of a tenant's spend: its _mock_costs entry and the
\* rows booked for it in the cost backend
Ledger(t) ==
    [mock |-> IF t \in DOMAIN mock_costs THEN Some(mock_costs[t]) ELSE None,
     rows |-> azure_rows[t]]

\* the simple forecast from the current summary (lines 227-230, 271-274)
simple_forecast(tenant_id, days_ahead, elapsed, client, up, rows, mock, base, accepted) ==
    LET current_costs == get_tenant_costs(tenant_id, client, up, rows, mock, base,
                                          accepted)
        days_in_period == IF elapsed = 0 THEN 1 ELSE elapsed
    IN  [raised |-> current_costs.raised,
         forecast |-> Ratio(current_costs.total_cost * days_ahead, days_in_period),
         mock_costs |-> current_costs.mock_costs,
         path |-> current_costs.path]

get_cost_forecast(tenant_id, days_ahead, elapsed, result, client, up, rows, mock, base, accepted) ==
    IF client # "None" /\ up
    THEN [raised |-> FALSE, forecast |-> Ratio(SumSeq(result), 1),
          mock_costs |-> mock, path |-> "forecast"]
    ELSE simple_forecast(tenant_id, days_ahead, elapsed, client, up, rows, mock, base,
                         accepted)

InitLedger ==
    /\ cost_client \in {"None", "client"}
    /\ azure_up = TRUE
    /\ azure_rows = [t \in Tenants |-> << >>]
    /\ mock_costs = << >>
    /\ breakdowns_accepted \in BOOLEAN
    /\ cost_log = NoCostLog
    /\ last = NoCall
    /\ redis_client = "None" /\ store_up = TRUE /\ store = << >>
    /\ tenants = [t \in Tenants |-> TenantConfig(t, MaxLimit, MaxLimit, MaxLimit)]
    /\ allow_all_tenants = TRUE
    /\ ProcsIdle
    /\ ClockIdle

\* track_request_cost: writes a debug log line and nothing else
TrackRequestCost(t) ==
    /\ last.op = "none"
    /\ cost_log[t].events < MaxTracked
    /\ \E cost \in TrackedAmounts :
        /\ cost_log' = [cost_log EXCEPT
                           ![t].events = @ + 1,
                           ![t].owed = Some(Max(OptionOr(cost_log[t].owed, 0),
                                                OptionOr(cost_log[t].reported, 0)) + cost)]
        /\ last' = [op |-> "track_request_cost", tenant |-> t, cost |-> cost]
    /\ UNCHANGED << cost_client, azure_up, azure_rows, mock_costs, breakdowns_accepted,
                    limiterVars, procVars >>

\* GET /api/costs/{tenant_id}: one get_tenant_costs call over the default period
GetTenantCosts(t) ==
    /\ last.op = "none"
    /\ MockRoom(t)
    /\ \E base \in HashChoices(t) :
        LET out == get_tenant_costs(t, cost_client, azure_up, azure_rows, mock_costs,
                                    base, breakdowns_accepted)
        IN  /\ mock_costs' = out.mock_costs
            /\ cost_log' = IF out.raised THEN cost_log
                           ELSE [cost_log EXCEPT ![t].reported = Some(out.total_cost)]
            /\ last' = [op |-> "get_tenant_costs", tenant |-> t, path |-> out.path,
                        raised |-> out.raised,
                        total_cost |-> IF out.raised THEN None ELSE Some(out.total_cost)]
    /\ UNCHANGED << cost_client, azure_up, azure_rows, breakdowns_accepted,
                    limiterVars, procVars >>

\* GET /api/costs/{tenant_id}/forecast: one get_cost_forecast call
GetCostForecast(t) ==
    /\ last.op = "none"
    /\ MockRoom(t)
    /\ \E base \in HashChoices(t), days_ahead \in DaysAhead, elapsed \in ElapsedDays,
          forecast_rows \in ForecastRows :
        LET out == get_cost_forecast(t, days_ahead, elapsed, forecast_rows, cost_client,
                                     azure_up, azure_rows, mock_costs, base,
                                     breakdowns_accepted)
        IN  /\ mock_costs' = out.mock_costs
            /\ last' = [op |-> "get_cost_forecast", tenant |-> t, path |-> out.path,
                        days_ahead |-> days_ahead, elapsed |-> elapsed,
                        raised |-> out.raised,
                        forecast |-> IF out.raised THEN None ELSE Some(out.forecast)]
    /\ UNCHANGED << cost_client, azure_up, azure_rows, breakdowns_accepted, cost_log,
                    limiterVars, procVars >>

NextLedger ==
    \/ \E t \in ActiveTenants : TrackRequestCost(t)
    \/ \E t \in ActiveTenants : GetTenantCosts(t)
    \/ \E t \in ActiveTenants : GetCostForecast(t)
    \/ \E t \in ActiveTenants : CheckBudget(t)
    \/ Return
    \/ AzureFail
    \/ AzureRecover
    \/ \E t \in ActiveTenants : AzureCostAccrues(t)

SpecLedger == InitLedger /\ [][NextLedger]_vars

\* every call returns, and callers ask for the summary again and again: the
\* query is taken if it is possible infinitely often (it is not while
\* another call is in progress)
SpecLedgerFair ==
    /\ SpecLedger
    /\ \A t \in ActiveTenants : SF_vars(GetTenantCosts(t))
    /\ WF_vars(Return)

(***************************************************************************)
(* The HTTP request path: the middleware stack and the chat handler.       *)
(***************************************************************************)
CHAT == << "api", "chat" >>
HEALTH == << "health" >>
RequestPaths == {CHAT, HEALTH}

\* the x-tenant-id header: a configured tenant, or absent, which reads as
\* DEFAULT_TENANT, a name no configuration has
DEFAULT_TENANT == "default"
HeaderTenants == {"a", DEFAULT_TENANT}

\* path.startswith(p), on path segments

PublicPaths == {<< "health" >>, << "ready" >>, << "docs" >>, << "openapi.json" >>,
                << "redoc" >>}
\* no path exempt from tenant validation
TenantPublicNever(path) == FALSE

\* TenantContextMiddleware._is_public_endpoint
TenantPublic(path) == \E pre \in PublicPaths : IsPrefix(pre, path)
\* CostGateMiddleware._is_public_endpoint
CostGatePublic(path) ==
    \E pre \in PublicPaths \cup {<< "api", "admin", "costs" >>, << "api", "admin", "budgets" >>} :
        IsPrefix(pre, path)

get_tenant(tenant_id) ==
    IF tenant_id \in DOMAIN tenants THEN Some(tenants[tenant_id]) ELSE None

validate_tenant(tenant_id) ==
    \/ allow_all_tenants
    \/ get_tenant(tenant_id) # None /\ Val(get_tenant(tenant_id)).enabled

\* request.state and the response so far, as the request descends the stack
NewContext(mock) ==
    [state_tenant_id |-> None, state_tenant_config |-> None,
     status |-> 0, error |-> "", budget |-> "none", budget_calls |-> 0,
     warning |-> None, mock_costs |-> mock]

\* SetupGuardMiddleware.dispatch: call_next on every branch
SetupGuardStep(ctx, path) == ctx

\* TelemetryMiddleware.dispatch: call_next, traced or not
TelemetryStep(ctx, path) == ctx

\* CostGateMiddleware.dispatch, up to its call_next or its 402.  An
\* exception under the try (check_budget raising, or .value read off a
\* policy held as a plain string) is caught and the request goes on.
CostGateStep(ctx, path, base) ==
    IF CostGatePublic(path) THEN ctx
    ELSE IF ~TruthyStr(ctx.state_tenant_id) THEN ctx
    ELSE IF ctx.state_tenant_config = None THEN ctx
    ELSE LET cfg == Val(ctx.state_tenant_config)
             out == check_budget(cfg, cost_client, azure_up, azure_rows,
                                 ctx.mock_costs, base, breakdowns_accepted)
             called == [ctx EXCEPT !.budget_calls = @ + 1,
                                   !.mock_costs = out.mock_costs]
         IN  IF out.raised THEN [called EXCEPT !.budget = "failed_open"]
             ELSE IF ~out.result.allowed
             THEN IF cfg.enforcement_given
                  THEN [called EXCEPT !.budget = "failed_open"]
                  ELSE [called EXCEPT !.status = 402, !.error = "budget_exceeded",
                                      !.budget = "denied"]
             ELSE [called EXCEPT !.budget = "passed", !.warning = out.result.reason]

\* TenantContextMiddleware.dispatch, up to its call_next or its 403
TenantContextStep(ctx, path, header) ==
    IF TenantPublic(path)
    THEN [ctx EXCEPT !.state_tenant_id = None, !.state_tenant_config = None]
    ELSE IF ~validate_tenant(header)
    THEN [ctx EXCEPT !.status = 403, !.error = "invalid_tenant"]
    ELSE [ctx EXCEPT !.state_tenant_id = Some(header),
                     !.state_tenant_config = get_tenant(header)]

\* the stack with the middleware in the order of their add_middleware calls
RegistrationOrder == << "TenantContext", "Telemetry", "CostGate", "SetupGuard" >>

\* the stack, outermost first: add_middleware puts each middleware in front
\* of those added before it
MiddlewareOrder == << "SetupGuard", "CostGate", "Telemetry", "TenantContext" >>

\* one middleware; a response already made passes back up untouched
MiddlewareStep(name, ctx, path, header, base) ==
    IF ctx.status # 0 THEN ctx
    ELSE IF name = "SetupGuard" THEN SetupGuardStep(ctx, path)
    ELSE IF name = "CostGate" THEN CostGateStep(ctx, path, base)
    ELSE IF name = "Telemetry" THEN TelemetryStep(ctx, path)
    ELSE TenantContextStep(ctx, path, header)

RECURSIVE RunStack(_, _, _, _, _)
RunStack(order, ctx, path, header, base) ==
    IF order = << >> THEN ctx
    ELSE RunStack(Tail(order), MiddlewareStep(Head(order), ctx, path, header, base),
                  path, header, base)

\* dependencies.get_tenant_id
get_tenant_id(ctx, header) ==
    IF TruthyStr(ctx.state_tenant_id) THEN Val(ctx.state_tenant_id) ELSE header

\* dependencies.get_tenant_config: the configuration, or None for its 403
get_tenant_config(ctx, header) ==
    IF ctx.state_tenant_config # None THEN ctx.state_tenant_config
    ELSE LET tenant_config == get_tenant(get_tenant_id(ctx, header))
         IN  IF tenant_config = None THEN None
             ELSE IF ~Val(tenant_config).enabled THEN None
             ELSE tenant_config

\* the request as the stack leaves it
Arrived(ctx, path, header) ==
    [path |-> path, header |-> header, status |-> ctx.status, error |-> ctx.error,
     detail |-> None, quota |-> "none", budget |-> ctx.budget,
     budget_calls |-> ctx.budget_calls, warning |-> ctx.warning]

\* Requests are in flight for seconds: of the three windows only the minute
\* can run out under them, the day and month keys outlive every request.

\* a request arrives and runs down the middleware stack, through routing and
\* the handler's dependencies, to the handler's first await on the store
Dispatch(p, path, header) ==
    /\ FreeSlot(p)
    /\ (path = CHAT /\ header \in Tenants) => CountRoom(header)
    /\ MockRoom(header)
    /\ \E base \in HashChoices(header) :
          LET ctx == RunStack(MiddlewareOrder, NewContext(mock_costs), path, header, base)
              req == Arrived(ctx, path, header)
              tenant_config == get_tenant_config(ctx, header)
          IN  /\ mock_costs' = ctx.mock_costs
              /\ IF ctx.status # 0
                 THEN /\ http' = [http EXCEPT ![p] = req]
                      /\ pc' = [pc EXCEPT ![p] = "done"]
                      /\ UNCHANGED << rq, dirty >>
                 ELSE IF path # CHAT
                 THEN /\ http' = [http EXCEPT ![p] = [req EXCEPT !.status = 200]]
                      /\ pc' = [pc EXCEPT ![p] = "done"]
                      /\ UNCHANGED << rq, dirty >>
                 ELSE IF tenant_config = None
                 THEN /\ http' = [http EXCEPT ![p] =
                                    [req EXCEPT !.status = 403, !.error = "tenant_not_found"]]
                      /\ pc' = [pc EXCEPT ![p] = "done"]
                      /\ UNCHANGED << rq, dirty >>
                 ELSE /\ http' = [http EXCEPT ![p] = req]
                      /\ CallCheck(p, get_tenant_id(ctx, header),
                                   Val(tenant_config).rate_limit_rpm,
                                   Val(tenant_config).rate_limit_rpd,
                                   Some(Val(tenant_config).quota_monthly_requests))
    /\ UNCHANGED << limiterVars, hist, cost_client, azure_up, azure_rows,
                    breakdowns_accepted, cost_log, last >>

\* the handler never raising its 429
QuotaDeniedNever(ret) == FALSE

\* "if not allowed:" (chat.py line 79)
QuotaDenied(ret) == ~ret.allowed

\* send_chat_message after check_rate_limit: the 429, or on to record_request
HandlerQuota(p) ==
    /\ pc[p] = "check_ret"
    /\ dirty' = [dirty EXCEPT ![p] = FALSE]
    /\ IF QuotaDenied(rq[p].ret)
       THEN /\ http' = [http EXCEPT ![p].status = 429, ![p].error = "rate_limited",
                                    ![p].detail = rq[p].ret.reason,
                                    ![p].quota = "denied"]
            /\ pc' = [pc EXCEPT ![p] = "done"]
            /\ UNCHANGED << rq, hist >>
       ELSE /\ http' = [http EXCEPT ![p].quota = "passed"]
            /\ CallRecord(p, rq[p].tenant_id, rq[p].rpm_limit, rq[p].rpd_limit,
                          rq[p].monthly_limit)
            /\ hist' = IF rq[p].via = "fail_open"
                       THEN [hist EXCEPT ![rq[p].tenant_id].failed_open = TRUE]
                       ELSE hist
    /\ UNCHANGED << limiterVars, budgetVars, last >>

\* send_chat_message after record_request: the agent is queried and the
\* reply returned, or the query fails and the handler raises its 500; an
\* exception out of record_request would leave the handler unhandled
HandlerBody(p) ==
    /\ pc[p] = "rec_ret"
    /\ \E replied \in BOOLEAN :
          http' = [http EXCEPT
                     ![p].status = IF rq[p].via # "raised" /\ replied THEN 200 ELSE 500,
                     ![p].error = IF rq[p].via = "raised" THEN "store_error"
                                  ELSE IF replied THEN "" ELSE "internal_error"]
    /\ pc' = [pc EXCEPT ![p] = "done"]
    /\ UNCHANGED << rq, dirty, hist, limiterVars, budgetVars, last >>

\* the response is sent
Finish(p) ==
    /\ pc[p] = "done"
    /\ pc' = [pc EXCEPT ![p] = "idle"]
    /\ rq' = [rq EXCEPT ![p] = NoFrame]
    /\ http' = [http EXCEPT ![p] = NoRequest]
    /\ dirty' = [dirty EXCEPT ![p] = FALSE]
    /\ UNCHANGED << hist, limiterVars, budgetVars, last >>

\* << budget_limit, budget_threshold, budget_enforcement, enforcement_given >>
BudgetProfiles ==
    {<< None, 90, BLOCK, FALSE >>, << Some(100000), 90, BLOCK, FALSE >>,
     << Some(100000), 90, BLOCK, TRUE >>}

AdmissionLimitProfiles == {<< MaxLimit, MaxLimit, MaxLimit >>, << 0, MaxLimit, 0 >>}

AdmissionConfigs(t) ==
    {[TenantConfig(t, l[1], l[2], l[3]) EXCEPT
         !.budget_limit = b[1], !.budget_threshold = b[2],
         !.budget_enforcement = b[3], !.enforcement_given = b[4]] :
       l \in AdmissionLimitProfiles, b \in BudgetProfiles}

\* The cost backend answers throughout and the spend is fixed: what the
\* request path does with the budget is decided by the middleware stack.
\* The month's spend of the requesting tenant is USD 95.
SpendRows == [t \in Tenants |-> IF t = "a" THEN << 95000 >> ELSE << >>]

Init ==
    /\ redis_client \in {"None", "Redis"}
    /\ allow_all_tenants \in BOOLEAN
    /\ tenants \in [Tenants -> UNION {AdmissionConfigs(t) : t \in Tenants}]
    /\ \A t \in Tenants : tenants[t].id = t
    /\ \A t \in Tenants \ ActiveTenants : tenants[t] = TenantConfig(t, MaxLimit, MaxLimit, MaxLimit)
    /\ store_up = TRUE
    /\ store = << >>
    /\ ProcsIdle
    /\ ClockIdle
    /\ cost_client = "client" /\ azure_up = TRUE
    /\ azure_rows = SpendRows
    /\ mock_costs = << >>
    /\ breakdowns_accepted = TRUE
    /\ cost_log = NoCostLog
    /\ last = NoCall

Next ==
    \/ \E p \in Procs, path \in RequestPaths, header \in HeaderTenants :
          Dispatch(p, path, header)
    \/ \E p \in Procs : LimiterSteps(p)
    \/ \E p \in Procs : HandlerQuota(p)
    \/ \E p \in Procs : HandlerBody(p)
    \/ \E p \in Procs : Finish(p)
    \/ StoreFail
    \/ StoreRecover
    \/ \E t \in Tenants : ExpireKey(rpm_key(t))

Spec == Init /\ [][Next]_vars

(***************************************************************************)
(* The request path with the requesting tenant enabled or disabled.        *)
(***************************************************************************)
TenantStates(t) ==
    {[TenantConfig(t, MaxLimit, MaxLimit, MaxLimit) EXCEPT !.enabled = e] : e \in BOOLEAN}

InitTenants ==
    /\ redis_client \in {"None", "Redis"}
    /\ allow_all_tenants \in BOOLEAN
    /\ tenants \in [Tenants -> UNION {TenantStates(t) : t \in Tenants}]
    /\ \A t \in Tenants : tenants[t].id = t
    /\ \A t \in Tenants \ ActiveTenants : tenants[t] = TenantConfig(t, MaxLimit, MaxLimit, MaxLimit)
    /\ store_up = TRUE
    /\ store = << >>
    /\ ProcsIdle
    /\ ClockIdle
    /\ BudgetIdle

SpecTenants == InitTenants /\ [][Next]_vars

(***************************************************************************)
(* The request path with the counter store and the cost backend failing.   *)
(***************************************************************************)
\* the requesting tenant is over its budget, with policy BLOCK
OverBudgetConfig(t) ==
    [TenantConfig(t, MaxLimit, MaxLimit, MaxLimit) EXCEPT
        !.budget_limit = Some(100000), !.budget_threshold = 90]

InitOutage ==
    /\ redis_client \in {"None", "Redis"}
    /\ allow_all_tenants = TRUE
    /\ tenants = [t \in Tenants |-> IF t \in ActiveTenants THEN OverBudgetConfig(t)
                                    ELSE TenantConfig(t, MaxLimit, MaxLimit, MaxLimit)]
    /\ store_up = TRUE
    /\ store = << >>
    /\ ProcsIdle
    /\ ClockIdle
    /\ cost_client \in {"None", "client"} /\ azure_up = TRUE
    /\ azure_rows = SpendRows
    /\ mock_costs = << >>
    /\ breakdowns_accepted \in BOOLEAN
    /\ cost_log = NoCostLog
    /\ last = NoCall

NextOutage ==
    \/ Next
    \/ AzureFail
    \/ AzureRecover

SpecOutage == InitOutage /\ [][NextOutage]_vars

(***************************************************************************)
(* The request path for a tenant over its threshold under a warning policy.*)
(***************************************************************************)
InitWarning ==
    /\ redis_client = "Redis"
    /\ allow_all_tenants = TRUE
    /\ \E enforcement \in {THROTTLE, WARN} :
          tenants = [t \in Tenants |->
                       IF t \in ActiveTenants
                       THEN [OverBudgetConfig(t) EXCEPT !.budget_enforcement = enforcement]
                       ELSE TenantConfig(t, MaxLimit, MaxLimit, MaxLimit)]
    /\ store_up = TRUE
    /\ store = << >>
    /\ ProcsIdle
    /\ ClockIdle
    /\ cost_client = "client" /\ azure_up = TRUE
    /\ azure_rows = SpendRows
    /\ mock_costs = << >>
    /\ breakdowns_accepted = TRUE
    /\ cost_log = NoCostLog
    /\ last = NoCall

SpecWarning == InitWarning /\ [][Next]_vars

(***************************************************************************)
(* Budget management: PUT /api/budgets and POST /api/budgets/check.        *)
(***************************************************************************)
\* BudgetUpdateRequest.threshold: Optional[int], ge=0, le=100
ThresholdArgs == {None, Some(0), Some(50), Some(100)}
\* BudgetUpdateRequest.enforcement: Optional[BudgetEnforcement]
EnforcementArgs == {None} \cup {Some(e) : e \in BudgetEnforcement}

\* BudgetEnforcer.update_budget: the Budget it builds and returns
update_budget(tenant_id, budget_limit, threshold, enforcement) ==
    [tenant_id |-> tenant_id,
     limit |-> IF Truthy(budget_limit) THEN budget_limit ELSE None,
     threshold |-> IF Truthy(threshold) THEN Val(threshold) ELSE 90,
     enforcement |-> IF enforcement # None THEN Val(enforcement) ELSE BLOCK]

\* the configuration with the Budget written into it
StoredConfigUpdated(tenant_config, budget) ==
    [tenant_config EXCEPT !.budget_limit = budget.limit,
                          !.budget_threshold = budget.threshold,
                          !.budget_enforcement = budget.enforcement]

\* the tenant's stored configuration after update_budget: nothing is written
\* ("This would update the tenant configuration / For now, return a Budget")
StoredConfig(tenant_config, budget) == tenant_config

InitAdmin ==
    /\ redis_client = "None" /\ store_up = TRUE /\ store = << >>
    /\ allow_all_tenants = TRUE
    /\ tenants \in [Tenants -> UNION {AdmissionConfigs(t) : t \in Tenants}]
    /\ \A t \in Tenants : tenants[t].id = t
    /\ \A t \in Tenants \ ActiveTenants : tenants[t] = TenantConfig(t, MaxLimit, MaxLimit, MaxLimit)
    /\ ProcsIdle
    /\ ClockIdle
    /\ cost_client \in {"None", "client"} /\ azure_up = TRUE
    /\ azure_rows = SpendRows
    /\ mock_costs = << >>
    /\ breakdowns_accepted = TRUE
    /\ cost_log = NoCostLog
    /\ last = NoCall

\* PUT /api/budgets: one update_budget call
UpdateBudget(t) ==
    /\ last.op = "none"
    /\ \E budget_limit \in BudgetLimits, threshold \in ThresholdArgs,
          enforcement \in EnforcementArgs :
        LET budget == update_budget(t, budget_limit, threshold, enforcement)
        IN  /\ tenants' = [tenants EXCEPT ![t] = StoredConfig(@, budget)]
            /\ last' = [op |-> "update_budget", tenant |-> t,
                        budget_limit |-> budget_limit, threshold |-> threshold,
                        enforcement |-> enforcement, result |-> budget]
    /\ UNCHANGED << budgetVars, redis_client, allow_all_tenants, clockVars, store_up,
                    store, procVars >>

\* POST /api/budgets/check: check_budget on the tenant's stored configuration
CheckTenantBudget(t) ==
    /\ last.op = "none"
    /\ MockRoom(t)
    /\ \E base \in HashChoices(t) :
        LET out == check_budget(tenants[t], cost_client, azure_up, azure_rows,
                                mock_costs, base, breakdowns_accepted)
        IN  /\ mock_costs' = out.mock_costs
            /\ last' = [op |-> "check_budget", tenant |-> t, config |-> Some(tenants[t]),
                        fetch |-> out.fetch, raised |-> out.raised,
                        total_cost |-> out.total_cost, result |-> out.result]
    /\ UNCHANGED << cost_client, azure_up, azure_rows, breakdowns_accepted, cost_log,
                    limiterVars, procVars >>

NextAdmin ==
    \/ \E t \in ActiveTenants : UpdateBudget(t)
    \/ \E t \in ActiveTenants : CheckTenantBudget(t)
    \/ Return

SpecAdmin == InitAdmin /\ [][NextAdmin]_vars

(***************************************************************************)
(* CostGateMiddleware.dispatch on its own, given a request whose state a   *)
(* middleware before it has filled in.                                     *)
(***************************************************************************)
COSTS == << "api", "costs" >>       \* routers/costs.py: prefix="/api/costs"
BUDGETS == << "api", "budgets" >>   \* routers/budgets.py: prefix="/api/budgets"
GatePaths == {CHAT, HEALTH, COSTS, BUDGETS}

\* request.state.tenant_config: none, a tenant without budget limit, or a
\* tenant at USD 95 of a limit of 100 with threshold 90 under each policy
GateConfigs(t) ==
    {None, Some(TenantConfig(t, MaxLimit, MaxLimit, MaxLimit))}
        \cup {Some([OverBudgetConfig(t) EXCEPT !.budget_enforcement = e]) :
                e \in BudgetEnforcement}

\* the number of call_next calls dispatch makes: none with the 402; one on
\* the other paths, and a second one (line 86) when the call_next of the
\* warning branch (line 77) raises inside the try
call_next_calls(ctx, downstream_raises) ==
    IF ctx.status = 402 THEN 0
    ELSE IF ctx.budget = "passed" /\ ctx.warning # None /\ downstream_raises THEN 2
    ELSE 1

InitGate ==
    /\ redis_client = "None" /\ store_up = TRUE /\ store = << >>
    /\ allow_all_tenants = TRUE
    /\ tenants = [t \in Tenants |-> TenantConfig(t, MaxLimit, MaxLimit, MaxLimit)]
    /\ ProcsIdle
    /\ ClockIdle
    /\ cost_client \in {"None", "client"} /\ azure_up = TRUE
    /\ azure_rows = SpendRows
    /\ mock_costs = << >>
    /\ breakdowns_accepted = TRUE
    /\ cost_log = NoCostLog
    /\ last = NoCall

\* one request through CostGateMiddleware.dispatch; what lies downstream
\* answers or raises
GateDispatch(t, path) ==
    /\ last.op = "none"
    /\ MockRoom(t)
    /\ \E tenant_config \in GateConfigs(t), base \in HashChoices(t),
          downstream_raises \in BOOLEAN :
        LET state == [NewContext(mock_costs) EXCEPT
                         !.state_tenant_id = IF tenant_config = None THEN None
                                             ELSE Some(t),
                         !.state_tenant_config = tenant_config]
            ctx == CostGateStep(state, path, base)
        IN  /\ mock_costs' = ctx.mock_costs
            /\ last' = [op |-> "dispatch", tenant |-> t, path |-> path,
                        config |-> tenant_config, budget |-> ctx.budget,
                        downstream_raises |-> downstream_raises,
                        call_next |-> call_next_calls(ctx, downstream_raises),
                        status |-> ctx.status, warning |-> ctx.warning]
    /\ UNCHANGED << cost_client, azure_up, azure_rows, breakdowns_accepted, cost_log,
                    limiterVars, procVars >>

NextGate ==
    \/ \E t \in ActiveTenants, path \in GatePaths : GateDispatch(t, path)
    \/ Return
    \/ AzureFail
    \/ AzureRecover

SpecGate == InitGate /\ [][NextGate]_vars

(***************************************************************************)
(* The rate limiter with time passing: whole calls made one after another  *)
(* by server processes in different time zones, around a UTC midnight.     *)
(***************************************************************************)
Zones == {0, 3600}        \* the UTC offsets of the server processes
Jumps == {30, 31}        \* how far the clock moves between calls, in seconds

\* check_rate_limit run to its return against store st (lines 74-96)
check_rate_limit(st, tenant_id, rpm_limit, rpd_limit, monthly_limit, offset) ==
    IF OverLimit(Get(st, rpm_key(tenant_id)), rpm_limit)
    THEN CheckDeny("rpm", rpm_limit)
    ELSE IF OverLimit(Get(st, rpd_key_in(tenant_id, offset)), rpd_limit)
    THEN CheckDeny("rpd", rpd_limit)
    ELSE IF MonthlyTracked(monthly_limit)
            /\ OverLimit(Get(st, monthly_key(tenant_id)), Val(monthly_limit))
    THEN CheckDeny("monthly", Val(monthly_limit))
    ELSE CheckAllow

\* record_request run to its return against store st (lines 121-139)
record_request(st, tenant_id, monthly_limit, offset) ==
    LET minute == Expire(Incr(st, rpm_key(tenant_id)), rpm_key(tenant_id), MinuteTTL)
        day == Expire(Incr(minute, rpd_key_in(tenant_id, offset)),
                      rpd_key_in(tenant_id, offset), DayTTL)
    IN  IF MonthlyTracked(monthly_limit)
        THEN Expire(Incr(day, monthly_key(tenant_id)), monthly_key(tenant_id), MonthTTL)
        ELSE day

\* the store after `seconds` have passed: times to live run down, and a key
\* whose time has run out is gone
Aged(st, seconds) ==
    LET kept == {k \in DOMAIN st : st[k].ttl = NoTTL \/ st[k].ttl > seconds}
    IN  [k \in kept |-> IF st[k].ttl = NoTTL THEN st[k]
                        ELSE [st[k] EXCEPT !.ttl = @ - seconds]]

InitClock ==
    /\ redis_client = "Redis"
    /\ allow_all_tenants = TRUE
    /\ tenants = [t \in Tenants |-> TenantConfig(t, MaxLimit, MaxLimit, MaxLimit)]
    /\ store_up = TRUE
    /\ store = << >>
    /\ ProcsIdle
    /\ BudgetIdle
    /\ utcnow = SecondsPerDay - MinuteTTL - 1
    /\ recorded = << >>
    /\ observed = NoObservation

TimedRecord(offset) ==
    /\ Len(recorded) < MaxRecorded
    /\ store' = record_request(store, "a", None, offset)
    /\ recorded' = Append(recorded, [at |-> utcnow, zone |-> offset,
                                     day_key |-> rpd_key_in("a", offset)])
    /\ UNCHANGED << utcnow, observed, redis_client, tenants, allow_all_tenants,
                    store_up, procVars, budgetVars, last >>

TimedCheck(offset, rpm_limit, rpd_limit) ==
    /\ observed' = [at |-> utcnow, zone |-> offset, rpm_limit |-> rpm_limit,
                    rpd_limit |-> rpd_limit,
                    ret |-> check_rate_limit(store, "a", rpm_limit, rpd_limit, None, offset)]
    /\ UNCHANGED << utcnow, recorded, redis_client, tenants, allow_all_tenants,
                    store_up, store, procVars, budgetVars, last >>

Advance(seconds) ==
    /\ utcnow + seconds <= MaxInstant
    /\ utcnow' = utcnow + seconds
    /\ store' = Aged(store, seconds)
    /\ UNCHANGED << recorded, observed, redis_client, tenants, allow_all_tenants,
                    store_up, procVars, budgetVars, last >>

NextClock ==
    \/ \E offset \in Zones : TimedRecord(offset)
    \/ \E offset \in Zones : \E rpm_limit, rpd_limit \in MaxLimit..(MaxLimit + 1) :
          TimedCheck(offset, rpm_limit, rpd_limit)
    \/ \E seconds \in Jumps : Advance(seconds)

SpecClock == InitClock /\ [][NextClock]_vars

(***************************************************************************)
(* Claims about the rate limiter, checked under SpecLimiter.               *)
(***************************************************************************)
\* a check_rate_limit call has returned after reading the store, and the
\* store did not change between its first read and now
CheckedUndisturbed(p) ==
    /\ pc[p] = "check_ret" /\ rq[p].op = "check"
    /\ rq[p].via = "checked" /\ ~dirty[p]

\* some configured window of the call stands at or above its limit, an
\* absent counter counting as 0; the month is configured when "if
\* monthly_limit" holds
AtLimitSomewhere(f) ==
    \/ CountOf(store, rpm_key(f.tenant_id)) >= f.rpm_limit
    \/ CountOf(store, rpd_key(f.tenant_id)) >= f.rpd_limit
    \/ /\ MonthlyTracked(f.monthly_limit)
       /\ CountOf(store, monthly_key(f.tenant_id)) >= Val(f.monthly_limit)

\* C1 (as claimed): with the store reachable check_rate_limit denies if and
\* only if some configured window's count, an absent counter counting as 0,
\* is at or above that window's limit, for every accepted limit value.
C1_DeniesIffAtLimit ==
    \A p \in Procs :
        CheckedUndisturbed(p) => (rq[p].ret.allowed = FALSE <=> AtLimitSomewhere(rq[p]))

\* record_request calls of tenant t that have passed the INCR of a window
IncrementsInProgress(t, pcs) ==
    Cardinality({p \in Procs : rq[p].op = "record" /\ rq[p].tenant_id = t /\ pc[p] \in pcs})

PastRpmIncr == {"rec_exp_rpm", "rec_incr_rpd", "rec_exp_rpd", "rec_incr_monthly",
                "rec_exp_monthly"}
PastRpdIncr == {"rec_exp_rpd", "rec_incr_monthly", "rec_exp_monthly"}
PastMonthlyIncr == {"rec_exp_monthly"}

C11_CheckFailsOpen ==
    \A p \in Procs :
        (pc[p] = "check_ret" /\ rq[p].op = "check" /\ rq[p].via \in {"fail_open", "mock"}) =>
            rq[p].ret = CheckAllow

\* C11 witness: a check has failed open while the tenant's minute counter
\* stands at or above the limit of the call.
C11_Witness ==
    \E p \in Procs :
        /\ pc[p] = "check_ret" /\ rq[p].op = "check" /\ rq[p].via = "fail_open"
        /\ rq[p].ret = CheckAllow
        /\ rpm_key(rq[p].tenant_id) \in DOMAIN store
        /\ CountOf(store, rpm_key(rq[p].tenant_id)) >= rq[p].rpm_limit

\* C12 (as claimed): a record_request during which the store fails returns
\* without having incremented any counter of the tenant.
C12_FailedRecordIsNoOp ==
    \A p \in Procs :
        (pc[p] = "rec_ret" /\ rq[p].op = "record" /\ rq[p].via = "failed") =>
            rq[p].incrs = 0

\* C15 (as claimed): in no reachable state does a counter exist with a count
\* above 0 and no expiry set.
C15_CountersAlwaysExpire ==
    \A k \in DOMAIN store : store[k].count > 0 => store[k].ttl # NoTTL

\* the first window, in the order minute, day, month, whose count (an absent
\* counter counting as 0) is at or above the limit of the call
FirstAtLimit(f) ==
    IF CountOf(store, rpm_key(f.tenant_id)) >= f.rpm_limit THEN "rpm"
    ELSE IF CountOf(store, rpd_key(f.tenant_id)) >= f.rpd_limit THEN "rpd"
    ELSE "monthly"

\* C18 (as claimed): check_rate_limit reads minute, day, month in that order
\* and its denial names the first window in that order whose count is at or
\* above its limit; the month is not read when no monthly limit is given.
C18_DenialNamesFirstWindow ==
    \A p \in Procs :
        /\ pc[p] = "check_monthly" => MonthlyTracked(rq[p].monthly_limit)
        /\ (CheckedUndisturbed(p) /\ ~rq[p].ret.allowed) =>
              /\ AtLimitSomewhere(rq[p])
              /\ Val(rq[p].ret.reason).window = FirstAtLimit(rq[p])

\* C19: no step of check_rate_limit creates, increments, deletes or changes
\* the expiry of a counter: the store after the step is the store before it,
\* whether the call goes on, allows, denies or fails open.
C19_CheckLeavesStore ==
    [][\A p \in Procs :
          ((pc[p] = "idle" \/ InCheck(p)) /\ pc'[p] # pc[p]
             /\ pc'[p] \in {"check_rpm", "check_rpd", "check_monthly", "check_ret"})
              => store' = store]_vars

\* C19 witness: a check has returned a denial with the tenant's counters in
\* the store.
C19_Witness ==
    \E p \in Procs :
        /\ pc[p] = "check_ret" /\ rq[p].op = "check" /\ ~rq[p].ret.allowed
        /\ ~dirty[p]
        /\ \A k \in KeysOf(rq[p].tenant_id) : k \in DOMAIN store

(***************************************************************************)
(* Claims about the request path, checked under Spec.                      *)
(***************************************************************************)
\* a window's counter is within its limit plus the requests in flight
WithinOvershoot(t) ==
    /\ CountOf(store, rpm_key(t)) <= tenants[t].rate_limit_rpm + MaxInFlight
    /\ CountOf(store, rpd_key(t)) <= tenants[t].rate_limit_rpd + MaxInFlight
    /\ MonthlyTracked(Some(tenants[t].quota_monthly_requests)) =>
          CountOf(store, monthly_key(t)) <= tenants[t].quota_monthly_requests + MaxInFlight

BudgetBlocks(t) ==
    /\ t \in DOMAIN tenants
    /\ tenants[t].budget_limit # None /\ Val(tenants[t].budget_limit) > 0
    /\ tenants[t].budget_enforcement = BLOCK
    /\ cost_client = "client" /\ azure_up
    /\ SumSeq(azure_rows[t]) * 100
          >= tenants[t].budget_threshold * Val(tenants[t].budget_limit)

\* C4: a request the quota check denies is answered 429 with the check's
\* reason, without check_budget having been invoked for it and without it
\* having incremented any counter, also when the tenant's budget is exceeded.
C4_QuotaDenialSkipsBudgetAndRecord ==
    \A p \in Procs :
        (http[p].quota = "denied" \/ http[p].status = 429) =>
            /\ http[p].status = 429 /\ http[p].error = "rate_limited"
            /\ http[p].detail # None /\ http[p].detail = rq[p].ret.reason
            /\ http[p].budget_calls = 0
            /\ rq[p].op = "check" /\ rq[p].incrs = 0

\* C4 witness: a request of a tenant whose budget is exceeded has been
\* answered 429.
C4_Witness ==
    \E p \in Procs :
        /\ http[p].status = 429 /\ BudgetBlocks(http[p].header)
        /\ http[p].budget_calls = 0

\* C5 (as claimed, counting the budget check of a tenant without budget limit
\* as passed): record_request runs for a request only after its quota check
\* and its budget check have passed, and a request answered 402 has
\* incremented no counter.
C5_RecordAfterBothChecks ==
    \A p \in Procs :
        /\ (http[p].path = CHAT /\ rq[p].op = "record") =>
              /\ http[p].quota = "passed"
              /\ http[p].budget = "passed" \/ ~BudgetLimitSet(tenants[http[p].header])
        /\ http[p].status = 402 => rq[p].incrs = 0

\* C6 (as claimed, for tenants with a budget limit): before the handler of a
\* tenant-scoped request runs, check_budget has been evaluated for the
\* tenant, and no request of a tenant at or above its threshold with policy
\* BLOCK is admitted.
C6_BudgetCheckedBeforeHandler ==
    \A p \in Procs :
        (http[p].path = CHAT /\ rq[p].op # "none"
           /\ BudgetLimitSet(tenants[http[p].header])) =>
            /\ http[p].budget_calls > 0
            /\ ~(BudgetBlocks(http[p].header) /\ http[p].status = 200)

\* the tenant named by the header has no configuration or is disabled
MissingOrDisabled(header) ==
    get_tenant(header) = None \/ ~Val(get_tenant(header)).enabled

\* C14 (as claimed): a request whose tenant is not found or is disabled is
\* answered 403 before any quota check, budget check or counter increment,
\* whatever allow_all_tenants is.
C14_UnknownOrDisabledTenantDenied ==
    \A p \in Procs :
        (pc[p] # "idle" /\ http[p].path = CHAT /\ MissingOrDisabled(http[p].header)) =>
            /\ pc[p] = "done" /\ http[p].status = 403
            /\ rq[p].op = "none" /\ http[p].budget_calls = 0

\* C17: whatever step the check_rate_limit, record_request and
\* get_usage_stats calls in progress take, no counter in the store goes
\* down or away; only the expiry of the key or the delete of reset_limits
\* lowers a count.
C17_CountersNeverDecrease ==
    [][\A k \in DOMAIN store :
          \/ k \in DOMAIN store' /\ store'[k].count >= store[k].count
          \/ ExpireKey(k)
          \/ \E p \in Procs : ResetDelete(p) /\ k \in rq[p].keys]_vars

\* C17 witness: get_usage_stats has read the three counters, the minute
\* counter above 1, while a record_request is between two of its commands.
C17_Witness ==
    \E p, q \in Procs :
        /\ pc[p] = "stats_ret" /\ rq[p].op = "stats" /\ rq[p].usage.flag = "none"
        /\ rq[p].usage.rpm > 1
        /\ InRecord(q)
        /\ CountOf(store, rpm_key("a")) >= rq[p].usage.rpm

\* reset_limits has returned True to p
ResetSucceeded(p) == pc[p] = "reset_ret" /\ rq[p].op = "reset" /\ rq[p].ok

\* no counter of the tenant is stored: get_usage_stats reads 0 three times
\* and check_rate_limit allows for positive limits
CountersAbsent(t) ==
    /\ \A k \in KeysOf(t) : k \notin DOMAIN store /\ CountOf(store, k) = 0
    /\ check_rate_limit(store, t, MaxLimit, MaxLimit, Some(MaxLimit), 0) = CheckAllow

\* C21 (as claimed): once reset_limits has returned True, every window
\* counter of the tenant is absent, so get_usage_stats reports 0 and
\* check_rate_limit allows.
C21_ResetClearsCounters ==
    \A p \in Procs : ResetSucceeded(p) => CountersAbsent(rq[p].tenant_id)

\* C21 (amended): once reset_limits has returned True, and no other call
\* wrote to the store between its scan and its return, every window counter
\* of the tenant is absent.
C21_ResetClearsCountersUndisturbed ==
    \A p \in Procs :
        (ResetSucceeded(p) /\ ~dirty[p]) => CountersAbsent(rq[p].tenant_id)

\* C21 witness: reset_limits found the three counters of the tenant,
\* deleted them undisturbed and returned True.
C21_Witness ==
    \E p \in Procs :
        /\ ResetSucceeded(p) /\ ~dirty[p] /\ rq[p].via = "reset"
        /\ rq[p].keys = KeysOf(rq[p].tenant_id)

\* reset_limits has returned after a store command of its own failed
ResetFailed(p) == pc[p] = "reset_ret" /\ rq[p].op = "reset" /\ rq[p].via = "failed"

CountersOf(t) == [k \in KeysOf(t) |-> Get(store, k)]

\* the call in slot p takes a step
Steps(p) == pc'[p] # pc[p]

\* C36: no step of record_request(A) or reset_limits(A) changes a counter
\* of another tenant B, also where A is a prefix of B.
C36_CountersIsolated ==
    [][\A p \in Procs :
          (Steps(p) /\ rq[p].op \in {"record", "reset"})
              => \A t \in Tenants \ {rq[p].tenant_id} : CountersOf(t)' = CountersOf(t)]_vars

(***************************************************************************)
(* Claims about the windows in time, checked under SpecClock.              *)
(***************************************************************************)
\* the timed record_request calls made within the `seconds` before the
\* observed check
RecordedWithin(seconds) ==
    {i \in DOMAIN recorded : observed.at - recorded[i].at <= seconds}

DeniedOn(window) ==
    /\ ~observed.ret.allowed
    /\ Val(observed.ret.reason).window = window

\* C16: a check denies on the per-minute limit only if at least rpm_limit
\* requests were recorded within the 60 seconds before it.
C16_MinuteWindowBounded ==
    DeniedOn("rpm") => Cardinality(RecordedWithin(MinuteTTL)) >= observed.rpm_limit

\* the timed record_request calls made on the UTC day of the observed check
RecordedOnDayOfCheck ==
    {i \in DOMAIN recorded : Date(recorded[i].at) = Date(observed.at)}

\* C20: the day key depends on the tenant and the UTC date only: two calls
\* use the same day key exactly when they are made on the same UTC day,
\* whatever the zones of their processes, and a check denies on the day limit
\* only if at least rpd_limit requests were recorded on its own UTC day.
C20_DayKeyByUtcDate ==
    /\ \A i, j \in DOMAIN recorded :
          (recorded[i].day_key = recorded[j].day_key)
             <=> (Date(recorded[i].at) = Date(recorded[j].at))
    /\ DeniedOn("rpd") => Cardinality(RecordedOnDayOfCheck) >= observed.rpd_limit

\* C20 witness: a check on day 1 is allowed while the counter of day 0, still
\* in the store, stands at the day limit; the recording and the checking
\* process are in different zones.
C20_Witness ==
    /\ Date(observed.at) = 1 /\ observed.ret.allowed
    /\ \E i \in DOMAIN recorded :
          /\ Date(recorded[i].at) = 0
          /\ recorded[i].zone # observed.zone
          /\ CountOf(store, recorded[i].day_key) >= observed.rpd_limit

\* what a finished request was answered: a denial, an admission (the agent's
\* reply, or the agent's own failure after admission), or an error
Decision(p) ==
    IF http[p].status \in {402, 403, 429} THEN "deny"
    ELSE IF http[p].status = 200 \/ (http[p].status = 500 /\ http[p].error = "internal_error")
    THEN "allow"
    ELSE "error"

\* C13: whatever the counter store and the cost backend do, a request in
\* progress always has its next step enabled, and a finished request was
\* allowed or denied: no store or backend failure reaches the caller as an
\* error.
C13_AlwaysDecides ==
    \A p \in Procs :
        /\ pc[p] \notin {"idle", "done"} =>
              ENABLED (LimiterSteps(p) \/ HandlerQuota(p) \/ HandlerBody(p))
        /\ pc[p] = "done" =>
              /\ Decision(p) # "error"
              /\ ENABLED Finish(p)

\* C13 witness: a chat request was admitted and answered although the store
\* failed during its record_request and the cost backend is down.
C13_Witness ==
    \E p \in Procs :
        /\ pc[p] = "done" /\ http[p].path = CHAT /\ http[p].status = 200
        /\ rq[p].op = "record" /\ rq[p].via = "failed"
        /\ ~azure_up /\ BudgetLimitSet(tenants[http[p].header])

\* the request was let past the quota check and its record_request returned
Admitted(p) ==
    /\ http[p].path = CHAT /\ http[p].quota = "passed"
    /\ rq[p].op = "record" /\ pc[p] \in {"rec_ret", "done"}

\* the quota counters configured for the request: minute, day, and month
\* when a monthly limit is passed
ConfiguredCounters(p) == IF rq[p].monthly_limit # None THEN 3 ELSE 2

\* C26: every admitted request has incremented each configured quota
\* counter of its tenant exactly once.
C26_AdmittedCountsOnce ==
    \A p \in Procs : Admitted(p) => rq[p].incrs = ConfiguredCounters(p)

\* what check_budget returns for the tenant of the request
BudgetCheckOf(p) ==
    check_budget(tenants[http[p].header], cost_client, azure_up, azure_rows,
                 mock_costs, 0, breakdowns_accepted).result

Checked == last.op = "check_budget"
LastCfg == Val(last.config)
LastLimit == Val(LastCfg.budget_limit)
LastCost == Val(last.total_cost)
\* a positive limit is configured and the call obtained a cost summary
UsageDefined ==
    /\ Checked /\ LastCfg.budget_limit # None /\ last.total_cost # None
    /\ LastLimit > 0
\* usagePercent = currentCost / limit x 100 is at or above the threshold
AtOrOverThreshold == LastCost * 100 >= LastCfg.budget_threshold * LastLimit

C9_NoLimitAllowsLedgerUntouched ==
    [][(last.op = "none" /\ last'.op = "check_budget"
          /\ Val(last'.config).budget_limit = None) =>
            /\ last'.result = Allow
            /\ last'.fetch = "none"
            /\ mock_costs' = mock_costs
            /\ azure_rows' = azure_rows]_vars

\* C9 witness: a check without a limit has returned for a tenant whose
\* recorded spend is at or above 90 USD.
C9_Witness ==
    /\ Checked /\ LastCfg.budget_limit = None
    /\ \/ SumSeq(azure_rows[last.tenant]) >= 90000
       \/ last.tenant \in DOMAIN mock_costs /\ mock_costs[last.tenant] >= 90000
    /\ last.result = Allow

OverThresholdUnder(policies) ==
    UsageDefined /\ AtOrOverThreshold /\ LastCfg.budget_enforcement \in policies

C23_UnknownPolicyAsWarn ==
    OverThresholdUnder(Policies \ BudgetEnforcement) =>
        last.result = BudgetDecision([LastCfg EXCEPT !.budget_enforcement = WARN],
                                     LastCost)

(***************************************************************************)
(* Claims about get_throttle_factor, checked under SpecThrottle.           *)
(***************************************************************************)
Throttled == last.op = "get_throttle_factor"
FactorOf(usage_percent, threshold) == Val(get_throttle_factor(usage_percent, threshold).factor)

\* C24: for a threshold below 95 the factor is 1.0 up to the threshold,
\* 1.0 - 0.5 x (usage - threshold) / (95 - threshold) from there to 95 and so
\* between 1.0 and 0.5, 0.25 from 95 to 100 and 0.1 from 100 on; and it is
\* never larger than the factor of any smaller usage.
C24_FactorShapeAndMonotone ==
    (Throttled /\ last.threshold < Percent(95)) =>
        LET u == last.usage_percent
            t == last.threshold
            f == Val(last.result.factor)
        IN  /\ last.result.factor # None
            /\ u <= t => RatEq(f, Ratio(1, 1))
            /\ (t <= u /\ u < Percent(95)) =>
                  /\ f.num * 2 * (Percent(95) - t)
                        = f.den * (2 * (Percent(95) - t) - (u - t))
                  /\ RatLeq(f, Ratio(1, 1))
                  /\ RatLeq(Ratio(1, 2), f) /\ ~RatEq(f, Ratio(1, 2))
            /\ (Percent(95) <= u /\ u < Percent(100)) => RatEq(f, Ratio(1, 4))
            /\ u >= Percent(100) => RatEq(f, Ratio(1, 10))
            /\ \A lower \in Usages : lower <= u => RatLeq(f, FactorOf(lower, t))

\* C24 witness: threshold 90, usage 92.5, half way up the ramp: factor 0.75.
C24_Witness ==
    /\ Throttled /\ last.threshold = Percent(90)
    /\ 2 * last.usage_percent = Percent(185)
    /\ RatEq(Val(last.result.factor), Ratio(3, 4))

\* C25: for every threshold in 0..100 and every usage the call returns a
\* factor in (0, 1], and when it evaluates the ramp the divisor
\* 95 - threshold is positive.
C25_FactorInUnitInterval ==
    Throttled =>
        /\ last.result.factor # None
        /\ Val(last.result.factor).num > 0
        /\ RatLeq(Val(last.result.factor), Ratio(1, 1))
        /\ last.result.divisor # None => Val(last.result.divisor) > 0

\* C25 witness: threshold 97, usage 98: the call answers 0.25 without
\* evaluating the ramp.
C25_Witness ==
    /\ Throttled /\ last.threshold = Percent(97) /\ last.usage_percent = Percent(98)
    /\ last.result.divisor = None
    /\ RatEq(Val(last.result.factor), Ratio(1, 4))

(***************************************************************************)
(* Claims about the cost ledger.                                           *)
(***************************************************************************)
\* the last total reported for the tenant covers what has been tracked
Included(t) ==
    /\ cost_log[t].reported # None /\ cost_log[t].owed # None
    /\ Val(cost_log[t].reported) >= Val(cost_log[t].owed)

\* C28: after track_request_cost has completed for a tenant, the totals that
\* later get_tenant_costs calls report eventually include the tracked
\* amount: the total reaches the aggregate as it stood plus every amount
\* tracked since (or the tenant's queries have run into MaxMockQueries).
C28_TrackedEventuallyIncluded ==
    \A t \in ActiveTenants :
        [](cost_log[t].owed # None => <>(Included(t) \/ ~MockRoom(t)))

C30_QueryIsPure ==
    [][(last.op = "none"
        /\ last'.op \in {"get_tenant_costs", "check_budget", "get_cost_forecast"})
          => /\ \A t \in Tenants : Ledger(t)' = Ledger(t)
             /\ (last'.op = "get_tenant_costs" /\ ~last'.raised)
                   => get_tenant_costs(last'.tenant, cost_client', azure_up',
                                       azure_rows', mock_costs', 0,
                                       breakdowns_accepted').total_cost
                      = Val(last'.total_cost)]_vars

\* the tenant's current period total: what get_tenant_costs reports of the
\* tenant in this state of the backend and the mock ledger
PeriodTotal(t) ==
    IF cost_client # "None" /\ azure_up THEN SumSeq(azure_rows[t]) ELSE mock_costs[t]

\* C31: get_cost_forecast(tenant, d) returns the tenant's current period
\* total, divided by the whole days elapsed in the period (by 1 if none has
\* elapsed), times d.
C31_ForecastIsLinear ==
    (last.op = "get_cost_forecast" /\ ~last.raised)
        => RatEq(Val(last.forecast),
                 Ratio(PeriodTotal(last.tenant) * last.days_ahead, Max(1, last.elapsed)))

(***************************************************************************)
(* Claims about budget management.                                         *)
(***************************************************************************)
\* the decision check_budget takes on the tenant's stored configuration, the
\* ledger as it is
DecisionFor(t) ==
    check_budget(tenants[t], cost_client, azure_up, azure_rows, mock_costs, 0,
                 breakdowns_accepted).result

\* C32: update_budget changes no stored state: the tenant configurations,
\* the cost ledger and the quota counters are the same after the call as
\* before it, and check_budget decides on the tenant as it did before.
C32_UpdateChangesNothing ==
    [][(last.op = "none" /\ last'.op = "update_budget")
          => /\ tenants' = tenants
             /\ \A t \in Tenants : Ledger(t)' = Ledger(t)
             /\ store' = store
             /\ \A t \in Tenants : DecisionFor(t)' = DecisionFor(t)]_vars

\* an update returned a Budget that differs from the stored configuration
C32_Witness ==
    /\ last.op = "update_budget"
    /\ last.result.limit = Some(100000)
    /\ tenants[last.tenant].budget_limit = None
    /\ last.result.enforcement = WARN

\* C38: the Budget returned by update_budget carries every supplied
\* argument (a limit >= 0, a threshold in 0..100, a policy), and the
\* defaults (no limit, 90, BLOCK) for the arguments left out.
C38_UpdateReturnsArguments ==
    last.op = "update_budget" =>
        /\ (last.budget_limit # None /\ Val(last.budget_limit) >= 0)
              => last.result.limit = last.budget_limit
        /\ last.budget_limit = None => last.result.limit = None
        /\ last.result.threshold = OptionOr(last.threshold, 90)
        /\ last.result.enforcement = OptionOr(last.enforcement, BLOCK)

(***************************************************************************)
(* Claims about the routes.                                                *)
(***************************************************************************)
\* C34: a request to a public endpoint (/health) is passed through to its
\* handler and answered by it: tenant validation, the budget and the quota
\* never deny it, whatever the tenant header and the ledgers.
C34_PublicPassesThrough ==
    \A p \in Procs :
        http[p].path = HEALTH
            => /\ http[p].status = 200
               /\ http[p].quota = "none" /\ http[p].budget = "none"

\* C34 witness: /health answered 200 for a tenant header that tenant
\* validation rejects, while a configured tenant has a budget limit.
C34_Witness ==
    \E p \in Procs :
        /\ http[p].path = HEALTH /\ http[p].status = 200
        /\ http[p].header = DEFAULT_TENANT /\ ~validate_tenant(DEFAULT_TENANT)
        /\ \E t \in Tenants : BudgetLimitSet(tenants[t])

\* a chat request of a configured, enabled tenant that has no budget limit
Eligible(p) ==
    /\ http[p].path = CHAT
    /\ http[p].header \in DOMAIN tenants
    /\ tenants[http[p].header].enabled
    /\ tenants[http[p].header].budget_limit = None

\* C35: a chat request of a valid, enabled tenant without budget limit is
\* never answered 403 or 402, and 429 only on a denying quota check; the
\* check allows whenever the tenant's counters stood below all configured
\* limits while it ran, in mock mode and with the store alike.
C35_EligibleRequestAdmitted ==
    \A p \in Procs :
        Eligible(p) =>
            /\ http[p].status \notin {402, 403}
            /\ http[p].status = 429 => (rq[p].op = "check" /\ ~rq[p].ret.allowed)
            /\ (pc[p] = "check_ret" /\ rq[p].op = "check" /\ ~dirty[p]
                   /\ ~AtLimitSomewhere(rq[p]))
                  => rq[p].ret.allowed

\* C35 witness: with the store in use, a chat request of such a tenant has
\* passed the quota check and been answered 200.
C35_Witness ==
    \E p \in Procs :
        /\ Eligible(p) /\ redis_client = "Redis"
        /\ http[p].quota = "passed" /\ http[p].status = 200
        /\ rq[p].via = "recorded"

====
